---- MODULE Spec2Model ----
(***************************************************************************)
(* PikakkoBot: model of the concurrency-and-state layer.                   *)
(*   - ChatQueueManager   (src/services.py)  per-chat FIFO work queue      *)
(*   - ChatLockManager    (src/utils.py)     per-chat lock registry        *)
(*   - ContextCacheManager(src/utils.py)     write-back transcript cache   *)
(*   - Database chat_history (src/database.py)                             *)
(* Every component has its own specification over its own variables; the   *)
(* wall clock `now` is shared.                                             *)
(***************************************************************************)
EXTENDS Integers, Sequences, FiniteSets, TLC

\* ------------------------------------------------------------ bounds ----
\* seconds that pass in one step of the clock of the queue and lock models
TickSeconds == 400
\* number of clock steps explored
MaxTicks == 2
\* number of enqueue calls explored (task ids 1..MaxTasks)
MaxTasks == 2

\* number of threading.RLock objects the registry may create
MaxLocks == 3
\* seconds that pass in one step of the clock of the cache models
CacheTickSeconds == 2000
\* number of steps of the clock of the cache models
CacheMaxTicks == 1
\* number of transcript turns created (uuids 1..MaxTurns)
MaxTurns == 3
\* number of transcript turns created in the model with set_cooldown calls
MaxCooldownTurns == 1
\* number of transcript turns created in the model with _do_shutdown
MaxFlushTurns == 2
\* ContextCacheManager.MAX_CACHE_ENTRIES, scaled down from 1000
MaxCacheEntries == 2
\* longest transcript handed to check_and_prepare_task
MaxLength == 42
\* inbound turns of the chat in the model of handle_message
MaxInbound == 2
\* entries of Config.AI_PROVIDERS
MaxProviders == 3
\* the clock when the cache of the capacity model is entered
LimitClock == 5
\* number of inbound turns of the chat in the model of its transcript
MaxTurnInbound == 2
\* number of inbound turns in the model with second calls of _insert_ai_reply
MaxSpliceInbound == 1
\* hours that pass in the model of the rate limiter
RateClock == 3
\* calls of check_and_record in the model of the rate limiter
MaxRateCalls == 3
\* calls of validate_and_consume and revoke_code in the model of the codes
MaxCodeCalls == 4
\* /clear commands in the model of the cache with /clear
MaxClears == 1

\* --------------------------------------------------- program constants --
\* ChatQueueManager._idle_timeout
IdleTimeout == 600
\* ChatLockManager ttl_seconds
LockTtl == 600
\* ContextCacheManager.SAVE_THRESHOLD
SaveThreshold == 3
\* ContextCacheManager.CACHE_TTL
CacheTtl == 1800
\* ContextCacheManager.AUTO_SAVE_INTERVAL
AutoSaveInterval == 10800
\* the cooldown handle_message sets after a condensation
SummaryCooldown == 5
\* Config.LIMIT_HISTORY_GROUP
LimitHistoryGroup == 20
\* Config.SUMMARY_TRIGGER_PRIVATE
SummaryTriggerPrivate == 35
\* Config.SUMMARY_RETAIN_PRIVATE
SummaryRetainPrivate == 15
\* Config.MAX_SAFETY_LIMIT
MaxSafetyLimit == 40

Chats == {"c1", "c2"}
Callers == {"t1", "t2"}
TaskIds == 1..MaxTasks
\* one queue.Queue object per enqueue call that finds no queue registered;
\* the object is named by the task of that call
QIds == TaskIds
NoQ == 0
NoTask == 0
NoTime == -1
\* threads of the transport that run handle_message / core_reply_cycle
Handlers == {"h1", "h2"}
LockIds == 1..MaxLocks
NoLock == 0
\* chat ids of the cache models (one more than MaxCacheEntries)
CacheChats == {"c1", "c2", "c3"}
\* chat ids of the caller whose cache calls are taken one at a time
SeqChats == {"c1", "c2"}
\* chat ids of the model with _do_shutdown
FlushChats == {"c1", "c2"}
\* threads that call get_context / update_context, each under the chat lock
Clients == {"a"}
\* the _maintenance_worker thread
Maint == "m"
Threads == Clients \cup {Maint}
\* the main thread, which runs _do_shutdown
Main == "s"
\* a message dict without the key "reply_to" / without the key "uuid"
NoReply == 0
NoUuid == 0

VARIABLES
    now,            \* time.time()
    shutdown_event, \* main._shutdown_event
    \* ---- ChatQueueManager
    queues,         \* _queues: chat id -> queue object (NoQ: no key)
    last_active,    \* _last_active: chat id -> time (NoTime: no key)
    qitems,         \* contents of each queue.Queue object
    qchat,          \* chat_id_str argument of the worker thread of each queue
    wpc,            \* position of the worker thread of each queue object
    wtask,          \* (func, args) the worker took from its queue
    epc,            \* position of each thread calling enqueue
    eq,             \* local q of each enqueue call
    etask,          \* (func, args) of each enqueue call
    nextTask,       \* next unused task id
    taskChat,       \* chat id each task was enqueued for
    putLog,         \* history: tasks in the order of q.put
    execLog,        \* history: tasks in the order func(*args) was entered
    outcome,        \* history: "none" | "running" | "ok" | "raised" per task
    \* ---- ChatLockManager
    locks,          \* _locks: chat id -> RLock object (NoLock: no key)
    lock_time,      \* _locks[chat id][1]: time of the last get_lock
    lowner,         \* each RLock object: the thread that holds it, or "free"
    nextLock,       \* next unused RLock object
    hpc,            \* position of each handler thread
    hchat,          \* chat_id_str of each handler thread
    hlock,          \* chat_lock local of each handler thread
    spc,            \* position of the _auto_cleanup thread
    current_time,   \* _auto_cleanup: current_time
    todo,           \* _auto_cleanup: keys the for loop has not visited yet
    keys_to_remove, \* _auto_cleanup: keys_to_remove
    \* ---- ContextCacheManager and the chat_history table
    cache_keys,     \* _cache: its keys, in dict (insertion) order
    cache,          \* _cache: chat id -> entry (meaningful for the keys)
    store,          \* chat_history: rows of each chat id, in rowid order
    th,             \* locals of each thread inside the cache API
    nextUuid,       \* next unused uuid
    written,        \* history: the transcript the last update_context set, per chat
    \* ---- one caller of the cache, its calls taken one at a time
    sq,             \* shares: the caller's list is the cache's list object;
                    \* nmut: appends since its last call (0, 1, more);
                    \* op: its last call; set: what its update_context set
    appended,       \* history: the turns appended and then set, per chat
    forced,         \* history: every set of the chat was one append with
                    \* force_save and a store write that committed
    \* ---- flush_all of _do_shutdown
    fl              \* history of the flush_all call: quiet (no other thread
                    \* took a step since it began), allok (no save of it
                    \* raised), dirty_at (the dirty keys when it began),
                    \* attempted (the chats it called save_chat_history
                    \* for), failed (the chats whose save in update_context
                    \* raised)
VARIABLES
    \* ---- check_and_prepare_task
    pol             \* one evaluation: chat_type, context (the transcript
                    \* with the inbound turn appended), keys and ent (the
                    \* cache), cooldown (history: its value before), pc,
                    \* task_msgs and forced_context (the returned pair)
VARIABLES
    \* ---- handle_message, core_reply_cycle, /clear
    hm,             \* pc and msgs_to_summarize of each handler thread, and
                    \* replies: the uuids of the user turns whose
                    \* core_reply_cycle is enqueued; holder: the thread
                    \* that holds the chat lock; history: enqueued and
                    \* executed (the user turns in the order their
                    \* core_reply_cycle was enqueued, was run)
    fh,             \* history: inbound (turns handled), cleared, since
                    \* (policy evaluations since the last condensation that
                    \* gave nothing, -1 before one), last (the last step: op,
                    \* handler, whether a store write of it committed)
    \* ---- ProviderManager
    pv,             \* provider_list, services (the keys of the dict), pref
                    \* (user_model_prefs.model_name of the user, "" for
                    \* none), pc, chain (what the generator has yielded)
    \* ---- core_reply_cycle
    rp              \* one reply task: pc, its locals, chat_lock (who holds
                    \* the RLock of the chat); history: invoked (the
                    \* backends called, in order), results (what each call
                    \* gave), reply_sends and failure_sends (calls of
                    \* safe_reply_to), others (inbound turns other threads
                    \* took), expect (the transcript as those threads left it)
VARIABLES
    \* ---- the locks of the process
    dl,             \* prog: the lock operations each thread has to make, in
                    \* order; pc: the next one; owner and count: the thread
                    \* that holds each lock and how many times
    \* ---- RateLimiter and the usage table
    rl,
    \* ---- OnetimeCodeManager and the invitation_codes table
    ic

qvars == <<queues, last_active, qitems, qchat, wpc, wtask, epc, eq, etask,
           nextTask, taskChat, putLog, execLog, outcome>>
lvars == <<locks, lock_time, lowner, nextLock, hpc, hchat, hlock, spc,
           current_time, todo, keys_to_remove>>
cvars == <<cache_keys, cache, store, th, nextUuid, written>>
svars == <<sq, appended, forced>>
yvars == <<pol>>
fvars == <<hm, fh>>
pvars == <<pv>>
rvars == <<rp>>
ovars == <<dl, rl, ic>>
xvars == <<fl, yvars, fvars, pvars, rvars, ovars>>
vars == <<now, shutdown_event, qvars, lvars, cvars, svars, xvars>>

\* ======================================================================
\* ChatQueueManager (src/services.py)
\* ======================================================================
QueueInit ==
    /\ queues = [c \in Chats |-> NoQ]
    /\ last_active = [c \in Chats |-> NoTime]
    /\ qitems = [q \in QIds |-> <<>>]
    /\ qchat = [q \in QIds |-> "c1"]
    /\ wpc = [q \in QIds |-> "unborn"]
    /\ wtask = [q \in QIds |-> NoTask]
    /\ epc = [t \in Callers |-> "idle"]
    /\ eq = [t \in Callers |-> NoQ]
    /\ etask = [t \in Callers |-> NoTask]
    /\ nextTask = 1
    /\ taskChat = [k \in TaskIds |-> "c1"]
    /\ putLog = <<>>
    /\ execLog = <<>>
    /\ outcome = [k \in TaskIds |-> "none"]

\* `if not q` in enqueue: a queue.Queue object has neither __bool__ nor
\* __len__, so it is falsy only when the dict has no key (q is None)
MutEnqueueNeedsQueue(q) == q = NoQ \/ qitems[q] = <<>>
EnqueueNeedsQueue(q) == q = NoQ

\* enqueue, the part under self._lock: look the queue up, create it and
\* start its worker when there is none, refresh _last_active
EnqueueLocked(t, c) ==
    /\ epc[t] = "idle"
    /\ nextTask <= MaxTasks
    /\ LET k == nextTask
           q == queues[c]
       IN /\ IF EnqueueNeedsQueue(q)
             THEN /\ queues' = [queues EXCEPT ![c] = k]
                  /\ qchat' = [qchat EXCEPT ![k] = c]
                  /\ wpc' = [wpc EXCEPT ![k] = "loop"]
                  /\ eq' = [eq EXCEPT ![t] = k]
             ELSE /\ eq' = [eq EXCEPT ![t] = q]
                  /\ UNCHANGED <<queues, qchat, wpc>>
          /\ last_active' = [last_active EXCEPT ![c] = now]
          /\ etask' = [etask EXCEPT ![t] = k]
          /\ taskChat' = [taskChat EXCEPT ![k] = c]
          /\ nextTask' = k + 1
          /\ epc' = [epc EXCEPT ![t] = "put"]
    /\ UNCHANGED <<now, shutdown_event, qitems, wtask, putLog, execLog, outcome>>

\* enqueue, after the lock is released: q.put((func, args))
EnqueuePut(t) ==
    /\ epc[t] = "put"
    /\ qitems' = [qitems EXCEPT ![eq[t]] = Append(@, etask[t])]
    /\ putLog' = Append(putLog, etask[t])
    /\ epc' = [epc EXCEPT ![t] = "idle"]
    /\ eq' = [eq EXCEPT ![t] = NoQ]
    /\ etask' = [etask EXCEPT ![t] = NoTask]
    /\ UNCHANGED <<now, shutdown_event, queues, last_active, qchat, wpc, wtask,
                   nextTask, taskChat, execLog, outcome>>

\* _worker: `while not self._shutdown_event.is_set()`
WorkerLoop(q) ==
    /\ wpc[q] = "loop"
    /\ wpc' = [wpc EXCEPT ![q] = IF shutdown_event THEN "exited" ELSE "get"]
    /\ UNCHANGED <<now, shutdown_event, queues, last_active, qitems, qchat, wtask,
                   epc, eq, etask, nextTask, taskChat, putLog, execLog, outcome>>

\* the item q.get hands out: the oldest one
MutQueueTake(items) == Len(items)
QueueTake(items) == 1

QueueRest(items, i) == [j \in 1..(Len(items) - 1) |-> IF j < i THEN items[j] ELSE items[j + 1]]

\* _worker: q.get(timeout=0.5) returns an item
WorkerGet(q) ==
    /\ wpc[q] = "get"
    /\ qitems[q] # <<>>
    /\ LET i == QueueTake(qitems[q])
       IN /\ wtask' = [wtask EXCEPT ![q] = qitems[q][i]]
          /\ qitems' = [qitems EXCEPT ![q] = QueueRest(@, i)]
    /\ wpc' = [wpc EXCEPT ![q] = "got"]
    /\ UNCHANGED <<now, shutdown_event, queues, last_active, qchat, epc, eq, etask,
                   nextTask, taskChat, putLog, execLog, outcome>>

\* _worker: q.get(timeout=0.5) raises queue.Empty
WorkerEmpty(q) ==
    /\ wpc[q] = "get"
    /\ qitems[q] = <<>>
    /\ wpc' = [wpc EXCEPT ![q] = "empty"]
    /\ UNCHANGED <<now, shutdown_event, queues, last_active, qitems, qchat, wtask,
                   epc, eq, etask, nextTask, taskChat, putLog, execLog, outcome>>

LastActiveGet(c) == IF last_active[c] = NoTime THEN 0 ELSE last_active[c]

\* _worker, the except queue.Empty branch under self._lock: deregister and
\* return once the chat has been idle for longer than _idle_timeout
WorkerIdleCheck(q) ==
    /\ wpc[q] = "empty"
    /\ LET c == qchat[q]
       IN IF now - LastActiveGet(c) > IdleTimeout
          THEN /\ IF queues[c] = q
                  THEN /\ queues' = [queues EXCEPT ![c] = NoQ]
                       /\ last_active' = [last_active EXCEPT ![c] = NoTime]
                  ELSE UNCHANGED <<queues, last_active>>
               /\ wpc' = [wpc EXCEPT ![q] = "exited"]
          ELSE /\ wpc' = [wpc EXCEPT ![q] = "loop"]
               /\ UNCHANGED <<queues, last_active>>
    /\ UNCHANGED <<now, shutdown_event, qitems, qchat, wtask, epc, eq, etask,
                   nextTask, taskChat, putLog, execLog, outcome>>

\* _worker: with self._lock: _last_active[chat] = time.time(); then func(*args)
\* is entered
WorkerStart(q) ==
    /\ wpc[q] = "got"
    /\ last_active' = [last_active EXCEPT ![qchat[q]] = now]
    /\ execLog' = Append(execLog, wtask[q])
    /\ outcome' = [outcome EXCEPT ![wtask[q]] = "running"]
    /\ wpc' = [wpc EXCEPT ![q] = "run"]
    /\ UNCHANGED <<now, shutdown_event, queues, qitems, qchat, wtask, epc, eq, etask,
                   nextTask, taskChat, putLog>>

\* where the worker goes after func(*args) returned ("ok") or raised
\* ("raised"): `except Exception` logs, `finally` calls q.task_done(), and the
\* while loop goes on
MutAfterTask(res) == IF res = "raised" THEN "exited" ELSE "loop"
AfterTask(res) == "loop"

\* _worker: func(*args) ends, by returning or by raising
WorkerFinish(q, res) ==
    /\ wpc[q] = "run"
    /\ outcome' = [outcome EXCEPT ![wtask[q]] = res]
    /\ wtask' = [wtask EXCEPT ![q] = NoTask]
    /\ wpc' = [wpc EXCEPT ![q] = AfterTask(res)]
    /\ UNCHANGED <<now, shutdown_event, queues, last_active, qitems, qchat, epc, eq,
                   etask, nextTask, taskChat, putLog, execLog>>

\* ======================================================================
\* ChatLockManager (src/utils.py) and the critical sections of the handlers
\* ======================================================================
LockInit ==
    /\ locks = [c \in Chats |-> NoLock]
    /\ lock_time = [c \in Chats |-> NoTime]
    /\ lowner = [l \in LockIds |-> "free"]
    /\ nextLock = 1
    /\ hpc = [h \in Handlers |-> "idle"]
    /\ hchat = [h \in Handlers |-> "c1"]
    /\ hlock = [h \in Handlers |-> NoLock]
    /\ spc = "wait"
    /\ current_time = 0
    /\ todo = {}
    /\ keys_to_remove = {}

\* get_lock (under _global_lock, which _auto_cleanup holds while it sweeps):
\* create the RLock of the chat when the registry has none, refresh its time,
\* return the object
GetLock(h, c) ==
    /\ hpc[h] = "idle"
    /\ spc \notin {"scan", "remove"}
    /\ IF locks[c] = NoLock
       THEN /\ nextLock <= MaxLocks
            /\ locks' = [locks EXCEPT ![c] = nextLock]
            /\ nextLock' = nextLock + 1
            /\ hlock' = [hlock EXCEPT ![h] = nextLock]
       ELSE /\ hlock' = [hlock EXCEPT ![h] = locks[c]]
            /\ UNCHANGED <<locks, nextLock>>
    /\ lock_time' = [lock_time EXCEPT ![c] = now]
    /\ hchat' = [hchat EXCEPT ![h] = c]
    /\ hpc' = [hpc EXCEPT ![h] = "have"]
    /\ UNCHANGED <<now, shutdown_event, lowner, spc, current_time, todo, keys_to_remove>>

\* `with chat_lock:` entered (handle_message: append and policy, apply summary,
\* set cooldown; core_reply_cycle: snapshot, splice): the transcript
\* read-modify-write section of the chat
EnterSection(h) ==
    /\ hpc[h] = "have"
    /\ lowner[hlock[h]] = "free"
    /\ lowner' = [lowner EXCEPT ![hlock[h]] = h]
    /\ hpc' = [hpc EXCEPT ![h] = "crit"]
    /\ UNCHANGED <<now, shutdown_event, locks, lock_time, nextLock, hchat, hlock, spc,
                   current_time, todo, keys_to_remove>>

\* `with chat_lock:` left; the handler keeps the lock object in its local
\* chat_lock and may enter again (after the summary or the backend call)
LeaveSection(h) ==
    /\ hpc[h] = "crit"
    /\ lowner' = [lowner EXCEPT ![hlock[h]] = "free"]
    /\ hpc' = [hpc EXCEPT ![h] = "have"]
    /\ UNCHANGED <<now, shutdown_event, locks, lock_time, nextLock, hchat, hlock, spc,
                   current_time, todo, keys_to_remove>>

\* the handler returns
HandlerReturn(h) ==
    /\ hpc[h] = "have"
    /\ hpc' = [hpc EXCEPT ![h] = "idle"]
    /\ hlock' = [hlock EXCEPT ![h] = NoLock]
    /\ UNCHANGED <<now, shutdown_event, locks, lock_time, lowner, nextLock, hchat, spc,
                   current_time, todo, keys_to_remove>>

\* _auto_cleanup: the wait ended without shutdown; current_time is read and
\* _global_lock taken
SweepStart ==
    /\ spc = "wait"
    /\ ~shutdown_event
    /\ current_time' = now
    /\ todo' = {c \in Chats : locks[c] # NoLock}
    /\ keys_to_remove' = {}
    /\ spc' = "scan"
    /\ UNCHANGED <<now, shutdown_event, locks, lock_time, lowner, nextLock, hpc, hchat, hlock>>

\* _auto_cleanup: `current_time - last_time > self._ttl`
MutExpired(t, last_time) == t - last_time > LockTtl + TickSeconds
Expired(t, last_time) == t - last_time > LockTtl

\* _auto_cleanup: one round of the for loop: a lock past the ttl is tried with
\* acquire(blocking=False); when that succeeds it is released and its key noted
SweepVisit(c) ==
    /\ spc = "scan"
    /\ c \in todo
    /\ todo' = todo \ {c}
    /\ keys_to_remove' =
          IF Expired(current_time, lock_time[c]) /\ lowner[locks[c]] = "free"
          THEN keys_to_remove \cup {c}
          ELSE keys_to_remove
    /\ spc' = IF todo' = {} THEN "remove" ELSE "scan"
    /\ UNCHANGED <<now, shutdown_event, locks, lock_time, lowner, nextLock, hpc, hchat,
                   hlock, current_time>>

\* _auto_cleanup: `for k in keys_to_remove: del self._locks[k]`, then
\* _global_lock is released
SweepRemove ==
    /\ spc \in {"scan", "remove"}
    /\ todo = {}
    /\ locks' = [c \in Chats |-> IF c \in keys_to_remove THEN NoLock ELSE locks[c]]
    /\ lock_time' = [c \in Chats |-> IF c \in keys_to_remove THEN NoTime ELSE lock_time[c]]
    /\ keys_to_remove' = {}
    /\ spc' = "wait"
    /\ UNCHANGED <<now, shutdown_event, lowner, nextLock, hpc, hchat, hlock, current_time, todo>>

\* _auto_cleanup: the loop sees the shutdown event and ends
SweepExit ==
    /\ spc = "wait"
    /\ shutdown_event
    /\ spc' = "exited"
    /\ UNCHANGED <<now, shutdown_event, locks, lock_time, lowner, nextLock, hpc, hchat,
                   hlock, current_time, todo, keys_to_remove>>

\* ======================================================================
\* Database.chat_history (src/database.py)
\* ======================================================================
\* s ordered by the numbers key[i] of its elements, equal keys keeping their
\* order (sorted(), ORDER BY on rows in rowid order)
StableSort(s, key) ==
    LET n == Len(s)
        Rank(k) == [i \in 1..n |-> Cardinality({j \in 1..n :
                       k[j] < k[i] \/ (k[j] = k[i] /\ j < i)}) + 1]
    IN CHOOSE sorted \in {[r \in 1..n |-> e[CHOOSE i \in 1..n : rank[i] = r]] :
                              e \in {s}, rank \in {Rank(k) : k \in {key}}} : TRUE

Turn(u, r, x, rt) == [uuid |-> u, role |-> r, content |-> x, reply_to |-> rt]

\* the rows one save inserts: (msg_uuid, role, content, seq = idx); the keys
\* reply_to and model of a message are not stored
InsertedRows(context) ==
    [i \in 1..Len(context) |->
        [msg_uuid |-> context[i].uuid, role |-> context[i].role,
         content |-> context[i].content, seq |-> i - 1]]

\* save_chat_history, committed: DELETE the chat's rows, INSERT the context
MutSaveChatHistory(rows, context) == rows \o InsertedRows(context)
SaveChatHistory(rows, context) == InsertedRows(context)

\* load_chat_history: SELECT msg_uuid, role, content ... ORDER BY seq ASC
LoadChatHistory(rows) ==
    CHOOSE data \in {[i \in 1..Len(sorted) |->
                        Turn(sorted[i].msg_uuid, sorted[i].role, sorted[i].content, NoReply)] :
                     sorted \in {StableSort(rows, [i \in 1..Len(rows) |-> rows[i].seq])}} : TRUE

\* ======================================================================
\* ContextCacheManager (src/utils.py)
\* ======================================================================
HasKey(keys, c) == \E i \in 1..Len(keys) : keys[i] = c
DelKeys(keys, gone) == SelectSeq(keys, LAMBDA k : k \notin gone)
Entry(data, dirty, cooldown, t) ==
    [data |-> data, dirty_count |-> dirty, summary_cooldown |-> cooldown, last_access |-> t]
\* value of cache[c] while c is no key
Absent == Entry(<<>>, 0, 0, 0)

\* _ensure_uuid: a message without the key "uuid" gets a new one
EnsureUuid(data) ==
    [i \in 1..Len(data) |->
        IF data[i].uuid = NoUuid THEN [data[i] EXCEPT !.uuid = 0 - i] ELSE data[i]]

\* _check_cache_limit_unsafe: over the ceiling, the least recently accessed
\* entries are snapshot and deleted down to int(MAX_CACHE_ENTRIES * 0.8)
\* (max: MAX_CACHE_ENTRIES)
MutCheckCacheLimitAt(keys, ent, max) ==
    LET n == Len(keys) - ((max * 8) \div 10)
        m == IF n < Len(keys) THEN n ELSE Len(keys)
        victims == IF Len(keys) <= max \/ n <= 0 THEN <<>> ELSE SubSeq(keys, 1, m)
        gone == {victims[i] : i \in 1..Len(victims)}
    IN [keys |-> DelKeys(keys, gone),
        ent |-> [c \in DOMAIN ent |-> IF c \in gone THEN Absent ELSE ent[c]],
        pending |-> [i \in 1..Len(victims) |-> [cid |-> victims[i], entry |-> ent[victims[i]]]]]
CheckCacheLimitAt(keys, ent, max) ==
    LET n == Len(keys) - ((max * 8) \div 10)
        sorted == StableSort(keys, [i \in 1..Len(keys) |-> ent[keys[i]].last_access])
        m == IF n < Len(sorted) THEN n ELSE Len(sorted)
        victims == IF Len(keys) <= max \/ n <= 0
                   THEN <<>> ELSE SubSeq(sorted, 1, m)
        gone == {victims[i] : i \in 1..Len(victims)}
    IN [keys |-> DelKeys(keys, gone),
        ent |-> [c \in DOMAIN ent |-> IF c \in gone THEN Absent ELSE ent[c]],
        pending |-> [i \in 1..Len(victims) |-> [cid |-> victims[i], entry |-> ent[victims[i]]]]]
CheckCacheLimit(keys, ent) == CheckCacheLimitAt(keys, ent, MaxCacheEntries)

\* get_context: `result = ...self._cache[cid]["data"]`
WithResult(r, c) ==
    [keys |-> r.keys, ent |-> r.ent, pending |-> r.pending, result |-> r.ent[c].data]

\* get_context, the part under _cache_lock
GetContextLockedAt(keys, ent, rows, c, t, max) ==
    IF ~HasKey(keys, c)
    THEN CHOOSE r \in {WithResult(CheckCacheLimitAt(Append(keys, c),
                          [ent EXCEPT ![c] = Entry(EnsureUuid(data), 0, 0, t)], max), c) :
                      data \in {LoadChatHistory(rows)}} : TRUE
    ELSE WithResult([keys |-> keys, ent |-> [ent EXCEPT ![c].last_access = t],
                     pending |-> <<>>], c)
GetContextLocked(keys, ent, rows, c, t) ==
    GetContextLockedAt(keys, ent, rows, c, t, MaxCacheEntries)

\* update_context: should_save
MutShouldSave(force_save, dirty) == force_save \/ dirty > SaveThreshold
ShouldSave(force_save, dirty) == force_save \/ dirty >= SaveThreshold

\* update_context: data, dirty_count += 1, last_access, should_save
SetEntry(r, c, new_context, force_save, t) ==
    [keys |-> r.keys,
     ent |-> [r.ent EXCEPT ![c] = Entry(new_context, @.dirty_count + 1,
                                        @.summary_cooldown, t)],
     pending |-> r.pending,
     should_save |-> ShouldSave(force_save, r.ent[c].dirty_count + 1)]

\* update_context, the part under _cache_lock
UpdateContextLockedAt(keys, ent, c, new_context, force_save, t, max) ==
    SetEntry(IF ~HasKey(keys, c)
             THEN CheckCacheLimitAt(Append(keys, c), [ent EXCEPT ![c] = Entry(<<>>, 0, 0, t)],
                                    max)
             ELSE [keys |-> keys, ent |-> ent, pending |-> <<>>],
             c, new_context, force_save, t)
UpdateContextLocked(keys, ent, c, new_context, force_save, t) ==
    UpdateContextLockedAt(keys, ent, c, new_context, force_save, t, MaxCacheEntries)

\* _flush_evictions: `if entry.get("dirty_count", 0) <= 0: continue`
DropClean(pending) == SelectSeq(pending, LAMBDA p : p.entry.dirty_count > 0)

\* _flush_evictions, the except branch under _cache_lock: the entry goes back
\* unless the chat id is a key again
Readmit(keys, ent, p, t) ==
    IF ~HasKey(keys, p.cid)
    THEN [keys |-> Append(keys, p.cid),
          ent |-> [ent EXCEPT ![p.cid] = [p.entry EXCEPT !.last_access = t]]]
    ELSE [keys |-> keys, ent |-> ent]

\* set_cooldown, under _cache_lock: nothing when the chat id is no key
SetCooldown(keys, ent, c, val) ==
    IF HasKey(keys, c) THEN [ent EXCEPT ![c].summary_cooldown = val] ELSE ent

\* _evict_inactive_entries: the keys whose entry was last accessed more than
\* CACHE_TTL ago are snapshot and deleted
EvictInactive(keys, ent, t) ==
    LET victims == SelectSeq(keys, LAMBDA k : t - ent[k].last_access > CacheTtl)
        gone == {victims[i] : i \in 1..Len(victims)}
    IN [keys |-> DelKeys(keys, gone),
        ent |-> [c \in CacheChats |-> IF c \in gone THEN Absent ELSE ent[c]],
        pending |-> [i \in 1..Len(victims) |-> [cid |-> victims[i], entry |-> ent[victims[i]]]]]

\* _flush_to_db after save_chat_history: it returns when the save raised;
\* else, under _cache_lock, dirty_count goes to 0 when the chat id is a key
\* and dirty_count is what it was at the snapshot
MutFlushCommit(keys, ent, c, dirty_snapshot, saved) ==
    IF HasKey(keys, c) /\ ent[c].dirty_count = dirty_snapshot
    THEN [ent EXCEPT ![c].dirty_count = 0] ELSE ent
FlushCommit(keys, ent, c, dirty_snapshot, saved) ==
    IF saved /\ HasKey(keys, c) /\ ent[c].dirty_count = dirty_snapshot
    THEN [ent EXCEPT ![c].dirty_count = 0] ELSE ent

Local == [pc |-> "idle", chat |-> "c1", ctx |-> <<>>, force |-> FALSE, pending |-> <<>>,
          ret |-> "idle", data_to_save |-> <<>>, dirty_snapshot |-> 0, saved |-> FALSE,
          cids |-> <<>>, last_auto_save |-> 0]

CacheInitAt(uuid) ==
    /\ cache_keys = <<>>
    /\ cache = [c \in CacheChats |-> Absent]
    /\ store = [c \in CacheChats |-> <<>>]
    /\ th = [t \in Threads \cup {Main} |-> Local]
    /\ nextUuid = uuid
    /\ written = [c \in CacheChats |-> <<>>]

CacheInit == CacheInitAt(1)

\* the callers hold the chat lock of c around their cache calls
ChatFree(t, c) == \A u \in Clients \ {t} : th[u].pc = "idle" \/ th[u].chat # c

AfterPending(pending, ret) == IF pending = <<>> THEN ret ELSE "evict"

\* a thread under the chat lock of c calls get_context(c); the step is the
\* part under _cache_lock
CacheGet(t, c) ==
    /\ t \in Clients
    /\ th[t].pc = "idle"
    /\ ChatFree(t, c)
    /\ LET r == GetContextLocked(cache_keys, cache, store[c], c, now)
           pend == DropClean(r.pending)
       IN /\ cache_keys' = r.keys
          /\ cache' = r.ent
          /\ th' = [th EXCEPT ![t] = [Local EXCEPT !.pc = AfterPending(pend, "have"),
                        !.chat = c, !.ctx = r.result, !.pending = pend,
                        !.ret = "have"]]
    /\ UNCHANGED <<now, shutdown_event, store, nextUuid, written>>

\* the thread leaves the chat lock without an update
CacheRelease(t) ==
    /\ th[t].pc = "have"
    /\ th' = [th EXCEPT ![t] = Local]
    /\ UNCHANGED <<now, shutdown_event, cache_keys, cache, store, nextUuid, written>>

\* a thread under the chat lock of c calls set_cooldown(c, 5) (a condensation
\* gave no summary)
CacheSetCooldown(t, c) ==
    /\ t \in Clients
    /\ th[t].pc = "idle"
    /\ ChatFree(t, c)
    /\ cache' = SetCooldown(cache_keys, cache, c, SummaryCooldown)
    /\ cache' # cache
    /\ UNCHANGED <<now, shutdown_event, cache_keys, store, th, nextUuid, written>>

\* the thread appends a new turn to the transcript it got and calls
\* update_context(c, context, force_save); the step is the part under
\* _cache_lock
CacheUpdate(t, force_save) ==
    /\ th[t].pc = "have"
    /\ nextUuid <= MaxTurns
    /\ LET c == th[t].chat
           ctx == Append(th[t].ctx, Turn(nextUuid, "user", "p", NoReply))
           r == UpdateContextLocked(cache_keys, cache, c, ctx, force_save, now)
           pend == DropClean(r.pending)
           ret == IF r.should_save THEN "snap" ELSE "ret"
       IN /\ cache_keys' = r.keys
          /\ cache' = r.ent
          /\ written' = [written EXCEPT ![c] = ctx]
          /\ th' = [th EXCEPT ![t] = [@ EXCEPT !.pc = AfterPending(pend, ret),
                        !.ctx = ctx, !.force = force_save, !.pending = pend,
                        !.ret = ret]]
    /\ nextUuid' = nextUuid + 1
    /\ UNCHANGED <<now, shutdown_event, store>>

\* _flush_evictions: save_chat_history of the next dirty snapshot, which
\* commits (ok) or raises
EvictSave(t, ok) ==
    /\ th[t].pc = "evict"
    /\ LET p == Head(th[t].pending)
           rest == Tail(th[t].pending)
       IN IF ok
          THEN /\ store' = [store EXCEPT ![p.cid] = SaveChatHistory(@, p.entry.data)]
               /\ th' = [th EXCEPT ![t].pending = rest,
                                   ![t].pc = AfterPending(rest, th[t].ret)]
          ELSE /\ th' = [th EXCEPT ![t].pc = "readmit"]
               /\ UNCHANGED store
    /\ UNCHANGED <<now, shutdown_event, cache_keys, cache, nextUuid, written>>

\* _flush_evictions: the except branch, under _cache_lock
EvictReadmit(t) ==
    /\ th[t].pc = "readmit"
    /\ LET p == Head(th[t].pending)
           rest == Tail(th[t].pending)
           r == Readmit(cache_keys, cache, p, now)
       IN /\ cache_keys' = r.keys
          /\ cache' = r.ent
          /\ th' = [th EXCEPT ![t].pending = rest,
                              ![t].pc = AfterPending(rest, th[t].ret)]
    /\ UNCHANGED <<now, shutdown_event, store, nextUuid, written>>

\* _flush_to_db: the snapshot under _cache_lock
FlushSnapshot(t) ==
    /\ th[t].pc = "snap"
    /\ LET c == th[t].chat
       IN IF HasKey(cache_keys, c)
          THEN th' = [th EXCEPT ![t].pc = "save",
                                ![t].data_to_save = cache[c].data,
                                ![t].dirty_snapshot = cache[c].dirty_count]
          ELSE th' = [th EXCEPT ![t].pc = "ret"]
    /\ UNCHANGED <<now, shutdown_event, cache_keys, cache, store, nextUuid, written>>

\* _flush_to_db: save_chat_history commits (ok) or raises
FlushSave(t, ok) ==
    /\ th[t].pc = "save"
    /\ LET c == th[t].chat
       IN /\ store' = IF ok THEN [store EXCEPT ![c] = SaveChatHistory(@, th[t].data_to_save)]
                      ELSE store
          /\ th' = [th EXCEPT ![t].pc = "commit", ![t].saved = ok]
    /\ UNCHANGED <<now, shutdown_event, cache_keys, cache, nextUuid, written>>

\* _flush_to_db: what follows the save
FlushReset(t) ==
    /\ th[t].pc = "commit"
    /\ cache' = FlushCommit(cache_keys, cache, th[t].chat, th[t].dirty_snapshot, th[t].saved)
    /\ th' = [th EXCEPT ![t].pc = "ret"]
    /\ UNCHANGED <<now, shutdown_event, cache_keys, store, nextUuid, written>>

\* update_context returns
UpdateReturn(t) ==
    /\ th[t].pc = "ret"
    /\ th' = [th EXCEPT ![t] = Local]
    /\ UNCHANGED <<now, shutdown_event, cache_keys, cache, store, nextUuid, written>>

\* _maintenance_worker: one cycle, _evict_inactive_entries under _cache_lock
MaintEvict ==
    /\ th[Maint].pc = "idle"
    /\ ~shutdown_event
    /\ LET r == EvictInactive(cache_keys, cache, now)
           pend == DropClean(r.pending)
       IN /\ r.pending # <<>>
          /\ cache_keys' = r.keys
          /\ cache' = r.ent
          /\ th' = [th EXCEPT ![Maint] = [Local EXCEPT !.pc = AfterPending(pend, "idle"),
                                           !.pending = pend]]
    /\ UNCHANGED <<now, shutdown_event, store, nextUuid, written>>

\* time.time() moves on (cache models)
CacheTick ==
    /\ now < CacheMaxTicks * CacheTickSeconds
    /\ now' = now + CacheTickSeconds
    /\ UNCHANGED shutdown_event

\* ======================================================================
\* one caller, its cache calls taken one at a time (each call whole)
\* ======================================================================
\* get_context: `result = copy.deepcopy(self._cache[cid]["data"])`; shared
\* says whether the caller's list is the list object the cache holds
MutReturned(data) == [value |-> data, shared |-> TRUE]
Returned(data) == [value |-> data, shared |-> FALSE]

\* update_context: `self._cache[cid]["data"] = copy.deepcopy(new_context)`
Stored(new_context) == [value |-> new_context, shared |-> FALSE]

\* the outcomes of the store writes of one _flush_evictions call
Outcomes(pending) == [1..Len(pending) -> BOOLEAN]

\* _flush_evictions, one snapshot: skipped when clean, saved when ok,
\* re-admitted when the save raises
FlushEviction(c, p, ok, t) ==
    IF p.entry.dirty_count <= 0 THEN c
    ELSE IF ok
    THEN [c EXCEPT !.store = [@ EXCEPT ![p.cid] = SaveChatHistory(@, p.entry.data)]]
    ELSE LET r == Readmit(c.keys, c.ent, p, t)
         IN [c EXCEPT !.keys = r.keys, !.ent = r.ent]

\* _flush_evictions, whole: the snapshots in order
FlushEvictions(keys, ent, st, pending, oks, t) ==
    LET done[i \in 0..Len(pending)] ==
            IF i = 0 THEN [keys |-> keys, ent |-> ent, store |-> st]
            ELSE FlushEviction(done[i - 1], pending[i], oks[i], t)
    IN done[Len(pending)]

\* _flush_to_db, whole; ok: its save_chat_history commits
FlushToDb(f, c, ok) ==
    IF ~HasKey(f.keys, c) THEN f
    ELSE [keys |-> f.keys,
          ent |-> FlushCommit(f.keys, f.ent, c, f.ent[c].dirty_count, ok),
          store |-> IF ok THEN [f.store EXCEPT ![c] = SaveChatHistory(@, f.ent[c].data)]
                    ELSE f.store]

\* what follows the part under _cache_lock in get_context and update_context
AfterLocked(r, st, oks, t) ==
    FlushEvictions(r.keys, r.ent, st, DropClean(r.pending), oks, t)
AfterUpdateLocked(r, st, c, oks, ok, t) ==
    IF r.should_save THEN FlushToDb(AfterLocked(r, st, oks, t), c, ok)
    ELSE AfterLocked(r, st, oks, t)

SeqInit ==
    /\ sq = [shares |-> FALSE, nmut |-> 0, op |-> "none", set |-> <<>>]
    /\ appended = [c \in CacheChats |-> <<>>]
    /\ forced = [c \in CacheChats |-> TRUE]

\* the caller's get_context(c)
SeqGet(t, c) ==
    /\ t \in Clients
    /\ LET r == GetContextLocked(cache_keys, cache, store[c], c, now)
       IN \E oks \in Outcomes(DropClean(r.pending)) :
          LET f == AfterLocked(r, store, oks, now)
          IN /\ cache_keys' = f.keys
             /\ cache' = f.ent
             /\ store' = f.store
             /\ th' = [th EXCEPT ![t] = [Local EXCEPT !.pc = "have", !.chat = c,
                                             !.ctx = Returned(r.result).value]]
             /\ sq' = [shares |-> Returned(r.result).shared, nmut |-> 0,
                       op |-> "get", set |-> <<>>]
    /\ UNCHANGED <<now, shutdown_event, nextUuid, written, appended, forced>>

\* the caller appends a message to the list it holds: a user message
\* (handle_message), or after a user message the reply to it, with reply_to
\* (core_reply_cycle)
SeqAppend(t) ==
    /\ th[t].pc = "have"
    /\ nextUuid <= MaxTurns
    /\ LET c == th[t].chat
           n == Len(th[t].ctx)
           reply == n > 0 /\ th[t].ctx[n].role = "user"
           msg == IF reply THEN Turn(nextUuid, "assistant", "p", th[t].ctx[n].uuid)
                  ELSE Turn(nextUuid, "user", "p", NoReply)
           ctx == Append(th[t].ctx, msg)
       IN /\ th' = [th EXCEPT ![t].ctx = ctx]
          /\ cache' = IF sq.shares /\ HasKey(cache_keys, c)
                      THEN [cache EXCEPT ![c].data = ctx] ELSE cache
    /\ nextUuid' = nextUuid + 1
    /\ sq' = [sq EXCEPT !.nmut = IF @ < 2 THEN @ + 1 ELSE @]
    /\ UNCHANGED <<now, shutdown_event, cache_keys, store, written, appended, forced>>

\* the caller's update_context(c, context, force_save), of a list it has
\* appended to
SeqUpdate(t, force_save) ==
    /\ th[t].pc = "have"
    /\ sq.nmut >= 1
    /\ LET c == th[t].chat
           r == UpdateContextLocked(cache_keys, cache, c, Stored(th[t].ctx).value,
                                    force_save, now)
       IN \E oks \in Outcomes(DropClean(r.pending)),
             ok \in IF r.should_save THEN BOOLEAN ELSE {FALSE} :
          LET w == AfterUpdateLocked(r, store, c, oks, ok, now)
              one == sq.nmut = 1 /\ force_save /\ ok
          IN /\ cache_keys' = w.keys
             /\ cache' = w.ent
             /\ store' = w.store
             /\ forced' = [forced EXCEPT ![c] = @ /\ one]
             /\ appended' = [appended EXCEPT ![c] =
                                IF forced[c] /\ one
                                THEN Append(@, th[t].ctx[Len(th[t].ctx)]) ELSE <<>>]
    /\ sq' = [shares |-> Stored(th[t].ctx).shared, nmut |-> 0, op |-> "update",
              set |-> th[t].ctx]
    /\ UNCHANGED <<now, shutdown_event, th, nextUuid, written>>

\* one cycle of _maintenance_worker between two calls
SeqMaint ==
    /\ th[Maint].pc = "idle"
    /\ LET r == EvictInactive(cache_keys, cache, now)
       IN /\ r.pending # <<>>
          /\ \E oks \in Outcomes(DropClean(r.pending)) :
                LET f == AfterLocked(r, store, oks, now)
                IN /\ cache_keys' = f.keys
                   /\ cache' = f.ent
                   /\ store' = f.store
    /\ sq' = [sq EXCEPT !.shares = FALSE, !.op = "maint", !.set = <<>>]
    /\ UNCHANGED <<now, shutdown_event, th, nextUuid, written, appended, forced>>

\* ======================================================================
\* _do_shutdown and flush_all (src/main.py, src/utils.py)
\* ======================================================================
\* flush_all: `[cid for cid, entry in self._cache.items() if entry["dirty_count"] > 0]`
FlushAllCids(keys, ent) == SelectSeq(keys, LAMBDA k : ent[k].dirty_count > 0)

FlushInit ==
    fl = [quiet |-> TRUE, allok |-> TRUE, dirty_at |-> {}, attempted |-> {}, failed |-> {},
          clears |-> 0]

\* the process has not exited
Running == th[Main].pc # "exited"

\* _do_shutdown: _shutdown_event.set()
ShutdownBegin ==
    /\ th[Main].pc = "idle"
    /\ shutdown_event' = TRUE
    /\ th' = [th EXCEPT ![Main].pc = "cids"]
    /\ UNCHANGED <<now, cache_keys, cache, store, nextUuid, written, fl>>

\* the step of flush_all's loop that follows pc: _flush_to_db of the next
\* chat id, or the return of flush_all
FlushAllStep(l, cids) ==
    IF cids = <<>> THEN [l EXCEPT !.pc = "flushed", !.cids = <<>>]
    ELSE [l EXCEPT !.pc = "snap", !.chat = Head(cids), !.cids = Tail(cids)]

\* flush_all: the list of dirty chat ids, under _cache_lock
FlushAllSnapshot ==
    /\ th[Main].pc = "cids"
    /\ th' = [th EXCEPT ![Main] = FlushAllStep(@, FlushAllCids(cache_keys, cache))]
    /\ fl' = [fl EXCEPT !.quiet = TRUE, !.allok = TRUE, !.attempted = {},
                 !.dirty_at = {c \in CacheChats :
                                  HasKey(cache_keys, c) /\ cache[c].dirty_count >= 1}]
    /\ UNCHANGED <<now, shutdown_event, cache_keys, cache, store, nextUuid, written>>

\* flush_all: _flush_to_db(cid) has returned
FlushAllNext ==
    /\ th[Main].pc = "ret"
    /\ th' = [th EXCEPT ![Main] = FlushAllStep(@, @.cids)]
    /\ UNCHANGED <<now, shutdown_event, cache_keys, cache, store, nextUuid, written, fl>>

\* _do_shutdown returns after flush_all, async_logger.stop() and db.close(),
\* main returns and the process exits with its daemon threads
ProcessExit ==
    /\ th[Main].pc = "flushed"
    /\ th' = [th EXCEPT ![Main].pc = "exited"]
    /\ UNCHANGED <<now, shutdown_event, cache_keys, cache, store, nextUuid, written, fl>>

\* ======================================================================
\* check_and_prepare_task (src/services.py)
\* ======================================================================
ChatTypes == {"private", "group"}
PolicyChat == "c1"
\* Python's None and a list that was returned
None == [some |-> FALSE, val |-> <<>>]
Some(v) == [some |-> TRUE, val |-> v]

\* context[-n:] for n > 0
LastN(context, n) ==
    IF Len(context) <= n THEN context
    ELSE SubSeq(context, Len(context) - n + 1, Len(context))
\* context[:n] for 0 <= n <= len(context)
FirstN(context, n) == SubSeq(context, 1, n)

\* get_cooldown, under _cache_lock: 0 when the chat id is no key
GetCooldown(keys, ent, c) == IF HasKey(keys, c) THEN ent[c].summary_cooldown ELSE 0

\* the pair (task_msgs, forced_context) check_and_prepare_task returns
Decision(task_msgs, forced_context) ==
    [task_msgs |-> task_msgs, forced_context |-> forced_context]

\* if len(context) > cfg.MAX_SAFETY_LIMIT: return None, context[-35:]
MutOverSafetyLimit(context) == Len(context) > MaxSafetyLimit + 1
OverSafetyLimit(context) == Len(context) > MaxSafetyLimit

MutSafetyDecision(context) == Decision(None, Some(LastN(context, MaxSafetyLimit + 1)))
SafetyDecision(context) == Decision(None, Some(LastN(context, SummaryTriggerPrivate)))

\* the branch of a chat that is cooling down, after set_cooldown
MutCoolingDecision(context) == Decision(Some(context), None)
CoolingDecision(context) ==
    IF OverSafetyLimit(context) THEN SafetyDecision(context) ELSE Decision(None, None)

\* the branch of a chat that is not private
MutGroupDecision(context) ==
    IF Len(context) > LimitHistoryGroup
    THEN Decision(None, Some(LastN(context, LimitHistoryGroup + 1)))
    ELSE Decision(None, None)
GroupDecision(context) ==
    IF Len(context) > LimitHistoryGroup
    THEN Decision(None, Some(LastN(context, LimitHistoryGroup)))
    ELSE Decision(None, None)

\* the branch of a private chat
MutPrivateDecision(context) ==
    IF Len(context) < SummaryTriggerPrivate THEN Decision(None, None)
    ELSE Decision(Some(FirstN(context, Len(context) - SummaryRetainPrivate)), None)
PrivateDecision(context) ==
    IF Len(context) <= SummaryTriggerPrivate THEN Decision(None, None)
    ELSE LET split_index == Len(context) - SummaryRetainPrivate
         IN IF split_index <= 0 THEN Decision(None, None)
            ELSE Decision(Some(FirstN(context, split_index)), None)

\* check_and_prepare_task: the returned pair and the cache entries it leaves
CheckAndPrepareTask(keys, ent, c, chat_type, context) ==
    LET cooldown == GetCooldown(keys, ent, c)
    IN IF cooldown > 0
       THEN [ret |-> CoolingDecision(context),
             ent |-> SetCooldown(keys, ent, c, cooldown - 1)]
       ELSE [ret |-> IF OverSafetyLimit(context) THEN SafetyDecision(context)
                     ELSE IF chat_type # "private" THEN GroupDecision(context)
                     ELSE PrivateDecision(context),
             ent |-> ent]

\* a transcript of n turns
Transcript(n) == [i \in 1..n |-> Turn(i, IF i % 2 = 1 THEN "user" ELSE "assistant", "p", NoReply)]

PolicyIdle ==
    pol = [pc |-> "idle", chat_type |-> "private", context |-> <<>>, keys |-> <<>>,
           ent |-> [c \in CacheChats |-> Absent], cooldown |-> 0,
           task_msgs |-> None, forced_context |-> None]

\* handle_message has appended the inbound turn to the transcript it got
\* from get_context, so the chat has a cache entry
PolicyInit ==
    \E chat_type \in ChatTypes, n \in 1..MaxLength, cooldown \in 0..SummaryCooldown :
        pol = [pc |-> "call", chat_type |-> chat_type, context |-> Transcript(n),
               keys |-> <<PolicyChat>>,
               ent |-> [c \in CacheChats |->
                           IF c = PolicyChat
                           THEN Entry(Transcript(n - 1), 0, cooldown, 0) ELSE Absent],
               cooldown |-> cooldown,
               task_msgs |-> None, forced_context |-> None]

\* handle_message calls check_and_prepare_task
PolicyEvaluate ==
    /\ pol.pc = "call"
    /\ LET r == CheckAndPrepareTask(pol.keys, pol.ent, PolicyChat, pol.chat_type, pol.context)
       IN pol' = [pol EXCEPT !.pc = "done", !.ent = r.ent,
                      !.task_msgs = r.ret.task_msgs,
                      !.forced_context = r.ret.forced_context]

\* ======================================================================
\* handle_message, apply_summary_success, core_reply_cycle, /clear
\* (src/handlers.py, src/services.py); every section under the chat lock is
\* one step
\* ======================================================================
FlowChat == "c1"
\* the threads of the bot's pool that run handle_message
FlowHandlers == 1..2
\* the transcript lengths of the private chat when the process starts
FlowLengths == {SummaryTriggerPrivate, MaxSafetyLimit - 1}

\* get_context, whole (no other chat is cached, so the cache stays under its
\* ceiling and _flush_evictions has nothing to write)
GetContext(w, c, t) ==
    CHOOSE g \in {[w |-> AfterLocked(r, w.store, <<>>, t), result |-> r.result] :
                     r \in {GetContextLocked(w.keys, w.ent, w.store[c], c, t)}} : TRUE

\* update_context, whole; ok: the save_chat_history of its _flush_to_db commits
UpdateContext(w, c, new_context, force_save, ok, t) ==
    CHOOSE u \in {AfterUpdateLocked(r, w.store, c, <<>>, ok, t) :
                     r \in {UpdateContextLocked(w.keys, w.ent, c, new_context,
                                                force_save, t)}} : TRUE

\* `if forced_context:`, `if msgs_to_summarize:`
Truthy(x) == x.some /\ x.val # <<>>

\* handle_message, the section under chat_lock that takes the inbound turn
MutHandleMessageUpdate(g, c, context, p, ok, t) ==
    [w |-> UpdateContext([g.w EXCEPT !.ent = p.ent], c, context,
                         Truthy(p.ret.forced_context), ok, t),
     msgs_to_summarize |-> IF Truthy(p.ret.forced_context) THEN None ELSE p.ret.task_msgs]
HandleMessageUpdate(g, c, context, p, ok, t) ==
    [w |-> UpdateContext([g.w EXCEPT !.ent = p.ent], c,
                         IF Truthy(p.ret.forced_context)
                         THEN p.ret.forced_context.val ELSE context,
                         Truthy(p.ret.forced_context), ok, t),
     msgs_to_summarize |-> IF Truthy(p.ret.forced_context) THEN None ELSE p.ret.task_msgs]
HandleMessagePolicy(g, c, chat_type, context, ok, t) ==
    CHOOSE r \in {HandleMessageUpdate(g, c, context, p, ok, t) :
                     p \in {CheckAndPrepareTask(g.w.keys, g.w.ent, c, chat_type,
                                                context)}} : TRUE
HandleMessageLocked(w, c, chat_type, user_msg_obj, ok, t) ==
    CHOOSE r \in {HandleMessagePolicy(g, c, chat_type, context, ok, t) :
                     g \in {GetContext(w, c, t)},
                     context \in {Append(GetContext(w, c, t).result, user_msg_obj)}} : TRUE

\* apply_summary_success: summary_node
SummaryNode(u) == Turn(u, "system", "s", NoReply)

\* apply_summary_success: the comparison of the uuids
MutSummaryGuard(msgs_to_summarize, current_context) == TRUE
SummaryGuard(msgs_to_summarize, current_context) ==
    LET msg_count == Len(msgs_to_summarize)
        start_uuid == msgs_to_summarize[1].uuid
        end_uuid == msgs_to_summarize[msg_count].uuid
    IN /\ start_uuid # NoUuid
       /\ end_uuid # NoUuid
       /\ start_uuid = current_context[1].uuid
       /\ end_uuid = current_context[msg_count].uuid

\* apply_summary_success: the early returns and the comparison
SummaryApplies(msgs_to_summarize, current_context) ==
    /\ current_context # <<>>
    /\ Len(current_context) >= Len(msgs_to_summarize)
    /\ SummaryGuard(msgs_to_summarize, current_context)

\* apply_summary_success: new_context
MutNewContext(current_context, msg_count, summary_node) ==
    <<summary_node>> \o SubSeq(current_context, msg_count + 1, Len(current_context) - 1)
NewContext(current_context, msg_count, summary_node) ==
    <<summary_node>> \o SubSeq(current_context, msg_count + 1, Len(current_context))

\* apply_summary_success, whole, with a summary_text that is not empty
ApplySummaryUpdate(g, c, msgs_to_summarize, u, ok, t) ==
    IF SummaryApplies(msgs_to_summarize, g.result)
    THEN UpdateContext(g.w, c, NewContext(g.result, Len(msgs_to_summarize), SummaryNode(u)),
                       TRUE, ok, t)
    ELSE g.w
ApplySummarySuccess(w, c, msgs_to_summarize, u, ok, t) ==
    CHOOSE r \in {ApplySummaryUpdate(g, c, msgs_to_summarize, u, ok, t) :
                     g \in {GetContext(w, c, t)}} : TRUE

\* _insert_ai_reply: the list after the insert, or the list itself when a
\* reply to the user turn is in it
MutWithReply(context, user_msg_uuid, ai_msg_obj) == Append(context, ai_msg_obj)
WithReply(context, user_msg_uuid, ai_msg_obj) ==
    LET at == {i \in 1..Len(context) : context[i].uuid = user_msg_uuid}
        insert_index == CHOOSE i \in at : \A j \in at : i <= j
    IN IF at = {} THEN Append(context, ai_msg_obj)
       ELSE SubSeq(context, 1, insert_index) \o <<ai_msg_obj>>
            \o SubSeq(context, insert_index + 1, Len(context))
MutInsertAiReplyUpdate(g, c, user_msg_uuid, ai_msg_obj, ok, t) ==
    UpdateContext(g.w, c, WithReply(g.result, user_msg_uuid, ai_msg_obj), FALSE, ok, t)
InsertAiReplyUpdate(g, c, user_msg_uuid, ai_msg_obj, ok, t) ==
    IF \E i \in 1..Len(g.result) : g.result[i].reply_to = user_msg_uuid
    THEN g.w
    ELSE UpdateContext(g.w, c, WithReply(g.result, user_msg_uuid, ai_msg_obj), FALSE, ok, t)
InsertAiReply(w, c, user_msg_uuid, ai_msg_obj, ok, t) ==
    CHOOSE r \in {InsertAiReplyUpdate(g, c, user_msg_uuid, ai_msg_obj, ok, t) :
                     g \in {GetContext(w, c, t)}} : TRUE

\* /clear: update_context(chat_id, [], force_save=True); set_cooldown(chat_id, 0)
ClearCooldown(w, c) == [w EXCEPT !.ent = SetCooldown(w.keys, w.ent, c, 0)]
ClearContext(w, c, ok, t) ==
    CHOOSE r \in {ClearCooldown(u, c) : u \in {UpdateContext(w, c, <<>>, TRUE, ok, t)}} : TRUE

\* chat_lock of the chat: the handler thread that holds it, or NoHolder
NoHolder == 0
\* the end of the `with chat_lock:` block that takes the inbound turn
MutSectionEnd(owner) == owner
SectionEnd(owner) == NoHolder
\* `with chat_lock:` can be entered by thread h (an RLock)
CanEnter(h) == hm.holder \in {NoHolder, h}

World == [keys |-> cache_keys, ent |-> cache, store |-> store]
SetWorld(w) ==
    /\ cache_keys' = w.keys
    /\ cache' = w.ent
    /\ store' = w.store

FlowIdle ==
    /\ hm = [pc |-> [h \in FlowHandlers |-> "idle"],
             msgs_to_summarize |-> [h \in FlowHandlers |-> None],
             user_msg_uuid |-> [h \in FlowHandlers |-> NoUuid], replies |-> {},
             holder |-> NoHolder, enqueued |-> <<>>, executed |-> <<>>]
    /\ fh = [inbound |-> 0, cleared |-> FALSE, since |-> 0 - 1,
             last |-> [op |-> "none", h |-> 1, ok |-> FALSE, why |-> "", u |-> NoUuid]]

\* the process starts with a private chat of n turns in the store
FlowInit ==
    /\ cache_keys = <<>>
    /\ cache = [c \in CacheChats |-> Absent]
    /\ \E n \in FlowLengths :
          /\ store = [c \in CacheChats |->
                         IF c = FlowChat THEN SaveChatHistory(<<>>, Transcript(n)) ELSE <<>>]
          /\ nextUuid = n + 1
    /\ th = [t \in Threads \cup {Main} |-> Local]
    /\ written = [c \in CacheChats |-> <<>>]
    /\ FlowIdle

Last(op, h, ok) == [op |-> op, h |-> h, ok |-> ok, why |-> "", u |-> NoUuid]
\* which return apply_summary_success took
Why(msgs_to_summarize, current_context) ==
    IF current_context = <<>> THEN "empty"
    ELSE IF Len(current_context) < Len(msgs_to_summarize) THEN "short"
    ELSE IF ~SummaryGuard(msgs_to_summarize, current_context) THEN "ids"
    ELSE "applied"
Count(n) == IF n < 0 THEN n ELSE IF n < SummaryCooldown THEN n + 1 ELSE n

\* handle_message, on the first free thread of the pool, takes an inbound
\* turn of the private chat: the section
\* under chat_lock, then get_summary is called or core_reply_cycle enqueued
InboundStep(h, ok, chat_type) ==
    /\ hm.pc[h] = "idle"
    /\ \A g \in FlowHandlers : g < h => hm.pc[g] # "idle"
    /\ CanEnter(h)
    /\ \E r \in {HandleMessageLocked(World, FlowChat, chat_type,
                                      Turn(nextUuid, "user", "p", NoReply), ok, now)} :
          /\ SetWorld(r.w)
          /\ hm' = IF Truthy(r.msgs_to_summarize)
                   THEN [hm EXCEPT !.pc[h] = "summary",
                                   !.msgs_to_summarize[h] = r.msgs_to_summarize,
                                   !.user_msg_uuid[h] = nextUuid,
                                   !.holder = SectionEnd(h)]
                   ELSE [hm EXCEPT !.replies = @ \cup {nextUuid},
                                   !.holder = SectionEnd(h)]
          /\ fh' = [fh EXCEPT !.inbound = @ + 1, !.since = Count(@),
                              !.last = Last("inbound", h, ok /\ store' # store)]
    /\ nextUuid' = nextUuid + 1
    /\ UNCHANGED <<now, shutdown_event, th, written>>

FlowInbound(h, ok) ==
    /\ fh.inbound < MaxInbound
    /\ InboundStep(h, ok, "private")

\* get_summary has returned a summary: apply_summary_success under chat_lock,
\* then core_reply_cycle is enqueued
FlowSummaryApply(h, ok) ==
    /\ hm.pc[h] = "summary"
    /\ CanEnter(h)
    /\ \E w \in {ApplySummarySuccess(World, FlowChat, hm.msgs_to_summarize[h].val,
                                      nextUuid, ok, now)} : SetWorld(w)
    /\ hm' = [hm EXCEPT !.pc[h] = "idle", !.msgs_to_summarize[h] = None,
                        !.user_msg_uuid[h] = NoUuid, !.holder = NoHolder,
                        !.replies = @ \cup {hm.user_msg_uuid[h]}]
    /\ fh' = [fh EXCEPT !.last = [Last("apply", h, ok /\ store' # store) EXCEPT
                            !.why = Why(hm.msgs_to_summarize[h].val,
                                        GetContext(World, FlowChat, now).result),
                            !.u = hm.user_msg_uuid[h]]]
    /\ nextUuid' = IF SummaryApplies(hm.msgs_to_summarize[h].val,
                                     GetContext(World, FlowChat, now).result)
                   THEN nextUuid + 1 ELSE nextUuid
    /\ UNCHANGED <<now, shutdown_event, th, written>>

\* get_summary has returned nothing: set_cooldown(chat_id_str, 5) under
\* chat_lock, then core_reply_cycle is enqueued
FlowSummaryNothing(h) ==
    /\ hm.pc[h] = "summary"
    /\ CanEnter(h)
    /\ cache' = SetCooldown(cache_keys, cache, FlowChat, SummaryCooldown)
    /\ hm' = [hm EXCEPT !.pc[h] = "idle", !.msgs_to_summarize[h] = None,
                        !.user_msg_uuid[h] = NoUuid, !.holder = NoHolder,
                        !.replies = @ \cup {hm.user_msg_uuid[h]}]
    /\ fh' = [fh EXCEPT !.since = 0, !.last = Last("nothing", h, FALSE)]
    /\ UNCHANGED <<now, shutdown_event, cache_keys, store, th, nextUuid, written>>

\* core_reply_cycle has sent the reply to the user turn u: _insert_ai_reply
\* under chat_lock
FlowReply(u, ok) ==
    /\ u \in hm.replies
    /\ hm.holder = NoHolder
    /\ \E w \in {InsertAiReply(World, FlowChat, u, Turn(nextUuid, "assistant", "p", u),
                                ok, now)} : SetWorld(w)
    /\ hm' = [hm EXCEPT !.replies = @ \ {u}]
    /\ fh' = [fh EXCEPT !.last = Last("reply", 1, ok /\ store' # store)]
    /\ nextUuid' = nextUuid + 1
    /\ UNCHANGED <<now, shutdown_event, th, written>>

\* the /clear command of the chat, under its chat lock (once)
FlowClear(ok) ==
    /\ ~fh.cleared
    /\ hm.holder = NoHolder
    /\ \E w \in {ClearContext(World, FlowChat, ok, now)} : SetWorld(w)
    /\ fh' = [fh EXCEPT !.cleared = TRUE, !.last = Last("clear", 1, ok /\ store' # store)]
    /\ UNCHANGED <<now, shutdown_event, th, nextUuid, written, hm>>

\* one cycle of _maintenance_worker: _evict_inactive_entries, whole
FlowMaint ==
    /\ LET r == EvictInactive(cache_keys, cache, now)
       IN /\ r.pending # <<>>
          /\ \E oks \in Outcomes(DropClean(r.pending)) :
                \E w \in {AfterLocked(r, store, oks, now)} : SetWorld(w)
    /\ fh' = [fh EXCEPT !.last = Last("maint", 1, store' # store)]
    /\ UNCHANGED <<now, shutdown_event, th, nextUuid, written, hm>>

\* ======================================================================
\* handle_message with its enqueue as a step of its own (src/handlers.py)
\* ======================================================================
\* handle_message, on the first free thread of the pool, takes an inbound
\* turn of the private chat: the section under chat_lock
OrderInbound(h, ok) ==
    /\ hm.pc[h] = "idle"
    /\ \A g \in FlowHandlers : g < h => hm.pc[g] # "idle"
    /\ fh.inbound < MaxInbound
    /\ CanEnter(h)
    /\ \E r \in {HandleMessageLocked(World, FlowChat, "private",
                                      Turn(nextUuid, "user", "p", NoReply), ok, now)} :
          /\ SetWorld(r.w)
          /\ hm' = [hm EXCEPT !.pc[h] = IF Truthy(r.msgs_to_summarize)
                                        THEN "summary" ELSE "enqueue",
                              !.msgs_to_summarize[h] = r.msgs_to_summarize,
                              !.user_msg_uuid[h] = nextUuid,
                              !.holder = SectionEnd(h)]
          /\ fh' = [fh EXCEPT !.inbound = @ + 1, !.since = Count(@),
                              !.last = Last("inbound", h, ok /\ store' # store)]
    /\ nextUuid' = nextUuid + 1
    /\ UNCHANGED <<now, shutdown_event, th, written>>

\* get_summary has returned: apply_summary_success (a summary) or
\* set_cooldown (nothing) under chat_lock
OrderSummary(h, got, ok) ==
    /\ hm.pc[h] = "summary"
    /\ CanEnter(h)
    /\ IF got
       THEN /\ \E w \in {ApplySummarySuccess(World, FlowChat, hm.msgs_to_summarize[h].val,
                                             nextUuid, ok, now)} : SetWorld(w)
            /\ nextUuid' = nextUuid + 1
       ELSE /\ cache' = SetCooldown(cache_keys, cache, FlowChat, SummaryCooldown)
            /\ UNCHANGED <<cache_keys, store, nextUuid>>
    /\ hm' = [hm EXCEPT !.pc[h] = "enqueue", !.msgs_to_summarize[h] = None,
                        !.holder = NoHolder]
    /\ fh' = [fh EXCEPT !.last = Last(IF got THEN "apply" ELSE "nothing", h,
                                      store' # store)]
    /\ UNCHANGED <<now, shutdown_event, th, written>>

\* chat_queue_manager.enqueue(chat_id_str, core_reply_cycle, ..., user_msg_uuid)
OrderEnqueue(h) ==
    /\ hm.pc[h] = "enqueue"
    /\ hm' = [hm EXCEPT !.pc[h] = "idle", !.user_msg_uuid[h] = NoUuid,
                        !.enqueued = Append(@, hm.user_msg_uuid[h])]
    /\ UNCHANGED <<now, shutdown_event, cache_keys, cache, store, th, nextUuid,
                   written, fh>>

\* the worker of the chat's queue takes the next task and runs it:
\* core_reply_cycle sends a reply and calls _insert_ai_reply under chat_lock
OrderExecute(ok) ==
    /\ Len(hm.executed) < Len(hm.enqueued)
    /\ hm.holder = NoHolder
    /\ \E u \in {hm.enqueued[Len(hm.executed) + 1]} :
          /\ \E w \in {InsertAiReply(World, FlowChat, u,
                                     Turn(nextUuid, "assistant", "p", u), ok, now)} :
                SetWorld(w)
          /\ hm' = [hm EXCEPT !.executed = Append(@, u)]
    /\ fh' = [fh EXCEPT !.last = Last("reply", 1, ok /\ store' # store)]
    /\ nextUuid' = nextUuid + 1
    /\ UNCHANGED <<now, shutdown_event, th, written>>

\* ======================================================================
\* the capacity ceiling of the cache, on caches larger than those of the
\* other cache models (src/utils.py)
\* ======================================================================
\* MAX_CACHE_ENTRIES of this model
LimitCeiling == MaxCacheEntries + 1
\* the chats that may be cached when the model starts, in dict order, and
\* the chat whose entry is created
LimitOrder == <<"c1", "c2", "c3", "c4", "c5">>
LimitNew == "c6"
LimitChats == {LimitOrder[i] : i \in 1..Len(LimitOrder)} \cup {LimitNew}
LimitIndex(c) == CHOOSE i \in 1..Len(LimitOrder) : LimitOrder[i] = c

\* the cache holds n entries (up to the ceiling, or one more after a failed
\* eviction save put an entry back), each last accessed at 0 or now, clean
\* (its turn "p" is in the store) or dirty (its turn "q" is not)
LimitInit ==
    /\ \E n \in 1..(LimitCeiling + 1) :
          \E la \in [1..n -> {0, LimitClock}], d \in [1..n -> {0, 1}] :
             /\ cache_keys = SubSeq(LimitOrder, 1, n)
             /\ cache = [c \in LimitChats |->
                           IF c # LimitNew /\ LimitIndex(c) <= n
                           THEN Entry(<<Turn(LimitIndex(c), "user",
                                             IF d[LimitIndex(c)] = 1 THEN "q" ELSE "p",
                                             NoReply)>>,
                                      d[LimitIndex(c)], 0, la[LimitIndex(c)])
                           ELSE Absent]
             /\ store = [c \in LimitChats |->
                           IF c # LimitNew /\ LimitIndex(c) <= n /\ d[LimitIndex(c)] = 0
                           THEN SaveChatHistory(<<>>, <<Turn(LimitIndex(c), "user", "p",
                                                             NoReply)>>)
                           ELSE <<>>]
    /\ th = [t \in Threads \cup {Main} |-> Local]
    /\ nextUuid = Len(LimitOrder) + 1
    /\ written = [c \in LimitChats |-> <<>>]

\* ======================================================================
\* the transcript of one chat, private or of a group, under inbound turns,
\* replies, condensations and evictions (src/handlers.py,
\* src/services.py)
\* ======================================================================
\* the transcript lengths of the chat when the process starts: a private chat
\* at its trigger, under and over the safety ceiling, a group chat under and
\* over its cap (the replies spliced after the last inbound turn are stored)
TurnLengths(chat_type) ==
    IF chat_type = "private"
    THEN {SummaryTriggerPrivate, MaxSafetyLimit - 1, MaxSafetyLimit + 1}
    ELSE {LimitHistoryGroup - 1, LimitHistoryGroup + 1}

\* the same in the model with the /clear command
AdjacentLengths(chat_type) ==
    IF chat_type = "private" THEN {MaxSafetyLimit - 1} ELSE {LimitHistoryGroup - 1}

\* the process starts with the transcript of the chat in the store
TurnInitWith(lengths(_)) ==
    /\ cache_keys = <<>>
    /\ cache = [c \in CacheChats |-> Absent]
    /\ th = [t \in Threads \cup {Main} |-> Local]
    /\ written = [c \in CacheChats |-> <<>>]
    /\ hm = [pc |-> [h \in FlowHandlers |-> "idle"],
             msgs_to_summarize |-> [h \in FlowHandlers |-> None],
             user_msg_uuid |-> [h \in FlowHandlers |-> NoUuid], replies |-> {},
             holder |-> NoHolder, enqueued |-> <<>>, executed |-> <<>>]
    /\ \E chat_type \in ChatTypes :
          /\ fh = [inbound |-> 0, cleared |-> FALSE, since |-> 0 - 1,
                   last |-> [op |-> "none", h |-> 1, ok |-> FALSE, why |-> "",
                             u |-> NoUuid],
                   chat_type |-> chat_type, answered |-> {}]
          /\ \E n \in lengths(chat_type) :
                /\ store = [c \in CacheChats |->
                               IF c = FlowChat THEN SaveChatHistory(<<>>, Transcript(n))
                               ELSE <<>>]
                /\ nextUuid = n + 1

TurnInit == TurnInitWith(TurnLengths)
AdjacentInit == TurnInitWith(AdjacentLengths)

\* handle_message takes an inbound turn of the chat
TurnInbound(h, ok) ==
    /\ fh.inbound < MaxTurnInbound
    /\ InboundStep(h, ok, fh.chat_type)

\* core_reply_cycle has sent the reply to the user turn u: _insert_ai_reply
\* under chat_lock, in the model with second calls
SpliceReply(u, ok) ==
    /\ u \in hm.replies
    /\ hm.holder = NoHolder
    /\ \E w \in {InsertAiReply(World, FlowChat, u, Turn(nextUuid, "assistant", "p", u),
                                ok, now)} : SetWorld(w)
    /\ hm' = [hm EXCEPT !.replies = @ \ {u}]
    /\ fh' = [fh EXCEPT !.last = Last("reply", 1, ok /\ store' # store),
                        !.answered = @ \cup {u}]
    /\ nextUuid' = nextUuid + 1
    /\ UNCHANGED <<now, shutdown_event, th, written>>

\* handle_message takes an inbound turn of the chat, in the model with
\* second calls of _insert_ai_reply
SpliceInbound(h, ok) ==
    /\ fh.inbound < MaxSpliceInbound
    /\ InboundStep(h, ok, fh.chat_type)

\* _insert_ai_reply is called once more for a user turn u it was called for
\* (the case its first loop is written for)
SpliceAgain(u, ok) ==
    /\ u \in fh.answered
    /\ hm.holder = NoHolder
    /\ \E w \in {InsertAiReply(World, FlowChat, u, Turn(nextUuid, "assistant", "p", u),
                                ok, now)} : SetWorld(w)
    /\ fh' = [fh EXCEPT !.last = [Last("again", 1, ok /\ store' # store) EXCEPT !.u = u],
                        !.answered = @ \ {u}]
    /\ nextUuid' = nextUuid + 1
    /\ UNCHANGED <<now, shutdown_event, th, written, hm>>

\* a thread calls get_context of the chat that is not cached; the step is
\* the part under _cache_lock
LimitGet(t) ==
    /\ th[t].pc = "idle"
    /\ ~HasKey(cache_keys, LimitNew)
    /\ \E r \in {GetContextLockedAt(cache_keys, cache, store[LimitNew], LimitNew, now,
                                    LimitCeiling)} :
          /\ cache_keys' = r.keys
          /\ cache' = r.ent
          /\ th' = [th EXCEPT ![t] = [Local EXCEPT
                        !.pc = AfterPending(DropClean(r.pending), "have"),
                        !.chat = LimitNew, !.ctx = r.result,
                        !.pending = DropClean(r.pending), !.ret = "have"]]
    /\ UNCHANGED <<now, shutdown_event, store, nextUuid, written>>

\* a thread calls update_context of the chat that is not cached, with one
\* turn; the step is the part under _cache_lock
LimitUpdate(t) ==
    /\ th[t].pc = "idle"
    /\ ~HasKey(cache_keys, LimitNew)
    /\ \E r \in {UpdateContextLockedAt(cache_keys, cache, LimitNew,
                                       <<Turn(nextUuid, "user", "p", NoReply)>>, FALSE,
                                       now, LimitCeiling)} :
          /\ cache_keys' = r.keys
          /\ cache' = r.ent
          /\ th' = [th EXCEPT ![t] = [Local EXCEPT
                        !.pc = AfterPending(DropClean(r.pending), "ret"),
                        !.chat = LimitNew, !.pending = DropClean(r.pending),
                        !.ret = "ret"]]
    /\ nextUuid' = nextUuid + 1
    /\ UNCHANGED <<now, shutdown_event, store, written>>

\* ======================================================================
\* the loops that watch the shutdown event: _worker (src/services.py),
\* _auto_cleanup and _maintenance_worker (src/utils.py)
\* ======================================================================
\* the clock of this model: the process has run for longer than the
\* auto-save interval and the ttl of the cache
StopClock == AutoSaveInterval + CacheTtl
\* the chat whose tasks are enqueued and the thread that enqueues them
StopChat == "c1"
StopCaller == "t1"

\* the registry has the locks of the chats, got when the process started,
\* and no thread holds one
StopLockInit ==
    /\ locks = [c \in Chats |-> IF c = "c1" THEN 1 ELSE 2]
    /\ lock_time = [c \in Chats |-> 0]
    /\ lowner = [l \in LockIds |-> "free"]
    /\ nextLock = MaxLocks
    /\ hpc = [h \in Handlers |-> "idle"]
    /\ hchat = [h \in Handlers |-> "c1"]
    /\ hlock = [h \in Handlers |-> NoLock]
    /\ spc = "wait"
    /\ current_time = 0
    /\ todo = {}
    /\ keys_to_remove = {}

\* the cache has the entry of a chat, dirty or clean, accessed when the
\* process started, which is when _maintenance_worker set last_auto_save
StopCacheInit ==
    /\ \E d \in {0, 1}, t \in {0}, u \in {0} :
          /\ cache_keys = <<"c1">>
          /\ cache = [c \in CacheChats |->
                        IF c = "c1"
                        THEN Entry(<<Turn(1, "user", IF d = 1 THEN "q" ELSE "p", NoReply)>>,
                                   d, 0, t)
                        ELSE Absent]
          /\ store = [c \in CacheChats |->
                        IF c = "c1" /\ d = 0
                        THEN SaveChatHistory(<<>>, <<Turn(1, "user", "p", NoReply)>>)
                        ELSE <<>>]
          /\ th = [x \in Threads \cup {Main} |->
                      IF x = Maint THEN [Local EXCEPT !.last_auto_save = u] ELSE Local]
    /\ nextUuid = 2
    /\ written = [c \in CacheChats |-> <<>>]

\* _maintenance_worker: `while not self._shutdown_event.is_set()`, the wait
\* and the check after it; then `current_time - last_auto_save >
\* self.AUTO_SAVE_INTERVAL`
MutMaintWake(is_set) == FALSE
MaintWake(is_set) == is_set
MaintWait ==
    /\ th[Maint].pc = "idle"
    /\ th' = [th EXCEPT ![Maint].pc =
                 IF MaintWake(shutdown_event) THEN "exited"
                 ELSE IF now - th[Maint].last_auto_save > AutoSaveInterval THEN "cids"
                 ELSE "scan"]
    /\ UNCHANGED <<now, shutdown_event, cache_keys, cache, store, nextUuid, written>>

\* flush_all called by _maintenance_worker: the list of dirty chat ids under
\* _cache_lock, and each return of _flush_to_db
MaintFlushStep ==
    /\ th[Maint].pc \in {"cids", "ret"}
    /\ th' = [th EXCEPT ![Maint] =
                 FlushAllStep(@, IF th[Maint].pc = "cids"
                                 THEN FlushAllCids(cache_keys, cache) ELSE @.cids)]
    /\ UNCHANGED <<now, shutdown_event, cache_keys, cache, store, nextUuid, written>>

\* _maintenance_worker: last_auto_save = current_time after flush_all;
\* _evict_inactive_entries under _cache_lock
MaintScan ==
    /\ th[Maint].pc \in {"flushed", "scan"}
    /\ LET r == EvictInactive(cache_keys, cache, now)
           pend == DropClean(r.pending)
       IN /\ cache_keys' = r.keys
          /\ cache' = r.ent
          /\ th' = [th EXCEPT ![Maint].pc = AfterPending(pend, "idle"),
                              ![Maint].pending = pend,
                              ![Maint].ret = "idle",
                              ![Maint].last_auto_save =
                                  IF th[Maint].pc = "flushed" THEN now ELSE @]
    /\ UNCHANGED <<now, shutdown_event, store, nextUuid, written>>

\* ======================================================================
\* the locks: chat locks and _global_lock of ChatLockManager, _cache_lock of
\* ContextCacheManager (src/utils.py), _lock of ChatQueueManager
\* (src/services.py), _lock of Database (src/database.py), as the threads
\* of handle_message, /clear, core_reply_cycle, _auto_cleanup and
\* _maintenance_worker take them (src/handlers.py)
\* ======================================================================
GlobalLock == "global"
CacheLock == "cache"
QueueLock == "queue"
StoreLock == "store"
ChatLock(c) == c
DeadLocks == {GlobalLock, CacheLock, QueueLock, StoreLock} \cup {ChatLock(c) : c \in Chats}
\* threading.RLock (the others are threading.Lock)
Reentrant == {QueueLock, StoreLock} \cup {ChatLock(c) : c \in Chats}

\* a thread of the bot's pool, the worker of a chat's queue, the two loops
DeadHandlers == {"h1"}
DeadWorker == "w"
DeadSweep == "sweep"
DeadMaint == "maint"
DeadThreads == DeadHandlers \cup {DeadWorker, DeadSweep, DeadMaint}

\* `with lock:` entered and left; acquire(blocking=False)
Acq(l) == [op |-> "acq", lock |-> l]
Rel(l) == [op |-> "rel", lock |-> l]
Try(l) == [op |-> "try", lock |-> l]
With(l, body) == <<Acq(l)>> \o body \o <<Rel(l)>>

\* get_lock
GetLockOps == With(GlobalLock, <<>>)
\* load_chat_history (query_all), save_chat_history
StoreOps == With(StoreLock, <<>>)
\* get_context; miss: the chat id is no key and load_chat_history is called
\* under _cache_lock
GetContextOps(miss) == With(CacheLock, IF miss THEN StoreOps ELSE <<>>)
\* _flush_evictions of one dirty snapshot; raised: its save raises
FlushEvictionsOps(raised) == StoreOps \o (IF raised THEN With(CacheLock, <<>>) ELSE <<>>)
\* _flush_to_db
FlushToDbOps == With(CacheLock, <<>>) \o StoreOps \o With(CacheLock, <<>>)
\* get_cooldown, set_cooldown
CooldownOps == With(CacheLock, <<>>)
\* update_context; save: should_save
UpdateContextOps(save) == With(CacheLock, <<>>) \o (IF save THEN FlushToDbOps ELSE <<>>)
\* enqueue; the worker's `with self._lock:` before func(*args)
QueueOps == With(QueueLock, <<>>)

\* handle_message; miss: get_context finds no entry, loads, and evicts an
\* entry whose save raises; save: update_context saves; summary: the chat
\* cools down, or a condensation is applied
HandleMessageOps(c, miss, save, summary) ==
    GetLockOps
    \o With(ChatLock(c),
            GetContextOps(miss)
            \o (IF miss THEN FlushEvictionsOps(TRUE) ELSE <<>>)
            \o CooldownOps
            \o (IF summary THEN CooldownOps ELSE <<>>)
            \o UpdateContextOps(save))
    \o (IF summary
        THEN With(ChatLock(c), GetContextOps(FALSE) \o UpdateContextOps(TRUE))
        ELSE <<>>)
    \o QueueOps
\* clear_context
ClearOps(c) ==
    GetLockOps \o With(ChatLock(c), UpdateContextOps(TRUE) \o CooldownOps)
\* _worker takes a task, core_reply_cycle: the snapshot and the splice
WorkerOps(c, miss, save) ==
    QueueOps
    \o GetLockOps
    \o With(ChatLock(c), GetContextOps(miss))
    \o With(ChatLock(c), GetContextOps(FALSE) \o UpdateContextOps(save))
\* how _auto_cleanup probes a chat lock under _global_lock
MutProbe(l) == With(l, <<>>)
Probe(l) == <<Try(l), Rel(l)>>
\* _auto_cleanup, one sweep
SweepOps == With(GlobalLock, Probe(ChatLock("c1")) \o Probe(ChatLock("c2")))
\* _maintenance_worker, one cycle; full: flush_all is due and an eviction
\* save raises
MaintOps(full) ==
    (IF full THEN With(CacheLock, <<>>) \o FlushToDbOps ELSE <<>>)
    \o With(CacheLock, <<>>)
    \o FlushEvictionsOps(full)

\* what a thread may run (one of miss, save, summary at a time)
Branches == {<<FALSE, FALSE, FALSE>>, <<TRUE, FALSE, FALSE>>, <<FALSE, TRUE, FALSE>>,
             <<FALSE, FALSE, TRUE>>}
Programs(t) ==
    IF t \in DeadHandlers
    THEN {HandleMessageOps(c, b[1], b[2], b[3]) : c \in Chats, b \in Branches}
         \cup {ClearOps(c) : c \in Chats}
    ELSE IF t = DeadWorker
    THEN {WorkerOps("c1", b[1], b[2]) : b \in Branches}
    ELSE IF t = DeadSweep THEN {SweepOps}
    ELSE {MaintOps(full) : full \in BOOLEAN}

DeadIdle ==
    dl = [prog |-> [t \in DeadThreads |-> <<>>], pc |-> [t \in DeadThreads |-> 1],
          owner |-> [l \in DeadLocks |-> "free"], count |-> [l \in DeadLocks |-> 0]]

\* the operation thread t is at
AtOp(t) == dl.prog[t][dl.pc[t]]
Busy(t) == dl.pc[t] <= Len(dl.prog[t])
\* thread t can take lock l
CanTake(t, l) == dl.owner[l] = "free" \/ (dl.owner[l] = t /\ l \in Reentrant)
\* thread t goes on by k operations; after the last one it has returned
Advance(d, t, k) ==
    IF d.pc[t] + k > Len(d.prog[t]) THEN [d EXCEPT !.prog[t] = <<>>, !.pc[t] = 1]
    ELSE [d EXCEPT !.pc[t] = @ + k]
Taken(t, l) == Advance([dl EXCEPT !.owner[l] = t, !.count[l] = @ + 1], t, 1)

\* a thread begins a handler, a task, a sweep or a cycle
DeadBegin(t) ==
    /\ ~Busy(t)
    /\ \E prog \in Programs(t) :
          dl' = [dl EXCEPT !.prog[t] = prog, !.pc[t] = 1]

\* lock.acquire() returns
DeadAcquire(t) ==
    /\ Busy(t)
    /\ AtOp(t).op = "acq"
    /\ CanTake(t, AtOp(t).lock)
    /\ dl' = Taken(t, AtOp(t).lock)

\* lock.acquire(blocking=False) returns; when it returns False the release
\* that follows is skipped
DeadTry(t) ==
    /\ Busy(t)
    /\ AtOp(t).op = "try"
    /\ dl' = IF CanTake(t, AtOp(t).lock) THEN Taken(t, AtOp(t).lock)
             ELSE Advance(dl, t, 2)

\* lock.release()
DeadRelease(t) ==
    /\ Busy(t)
    /\ AtOp(t).op = "rel"
    /\ \E l \in {AtOp(t).lock} :
          dl' = Advance([dl EXCEPT !.count[l] = @ - 1,
                                   !.owner[l] = IF dl.count[l] = 1 THEN "free" ELSE @],
                        t, 1)

\* ======================================================================
\* RateLimiter (src/services.py)
\* ======================================================================
RateIdle == rl = <<>>

UserRateLimitHourly == 40
UserRateLimitDaily == 200
CleanupInterval == 7200

RateUser == "u1"
RateAdmin == "a1"
RateUsers == {RateUser, RateAdmin}
RateThreads == {"t1", "t2"}

\* AuthManager.get_role of the two users
RateRole(user_id) == IF user_id = RateAdmin THEN "admin" ELSE "user"

\* AuthManager.is_admin
IsAdmin(user_id) == RateRole(user_id) \in {"admin", "super_admin"}

\* AuthManager.should_rate_limit: both branches after the admin test return
\* True
ShouldRateLimit(user_id, chat_type) ==
    IF IsAdmin(user_id) THEN FALSE
    ELSE IF chat_type # "private" /\ RateRole(user_id) = "user" THEN TRUE
    ELSE TRUE

\* the clock counts hours; strftime("%Y-%m-%d-%H") and strftime("%Y-%m-%d")
\* of an hour: its day and hour of the day, and its day
HourKey(hour) == <<hour \div 24, hour % 24>>
DayKey(hour) == <<hour \div 24>>

\* RateLimiter._get_current_keys
GetCurrentKeys(hour) == [hour_key |-> HourKey(hour), day_key |-> DayKey(hour)]

\* the key lists of _cleanup_old_records: the last 24 hours, the last 7 days
HourlyKeys(hour) == {HourKey(hour - i) : i \in 0..23}
DailyKeys(hour) == {DayKey(hour - 24 * i) : i \in 0..6}

\* Database.get_usage: the count of the row, 0 without a row
GetUsage(rows, key) == IF key \in DOMAIN rows THEN rows[key] ELSE 0

\* Database.set_usage: insert the row or replace its count
SetUsage(rows, key, count) ==
    [k \in DOMAIN rows \cup {key} |-> IF k = key THEN count ELSE rows[k]]

\* Database.cleanup_usage: delete the rows whose key is not in valid_keys
CleanupUsage(rows, valid_keys) ==
    [k \in DOMAIN rows \cap valid_keys |-> rows[k]]

\* the hour the models of the limiter start at: hour 22 of the eighth day
RateStart == 7 * 24 + 22

\* a row of an hour and of a day that _cleanup_old_records no longer keeps
RateOldHour == HourKey(RateStart - 30)
RateOldDay == DayKey(0)

\* the limiter of a process that starts on a store in which the user's
\* requests of this hour and this day are counted: every count is the number
\* of requests admitted under its key
RateInit ==
    \E h \in {UserRateLimitHourly - 1, UserRateLimitHourly},
       d \in {UserRateLimitDaily - 1, UserRateLimitDaily},
       cleaned \in {0, RateStart - 1} :
       \E hourly \in {[k \in {RateOldHour, HourKey(RateStart)} |->
                          IF k = RateOldHour THEN 1 ELSE h]},
          daily \in {[k \in {RateOldDay, DayKey(RateStart)} |->
                          IF k = RateOldDay THEN 1 ELSE d]} :
          rl = [clock |-> RateStart,
                last_cleanup |-> cleaned,
                lock |-> "free",
                hourly |-> [u \in RateUsers |-> IF u = RateUser THEN hourly ELSE <<>>],
                daily |-> [u \in RateUsers |-> IF u = RateUser THEN daily ELSE <<>>],
                admitted_hourly |-> hourly,
                admitted_daily |-> daily,
                pc |-> [t \in RateThreads |-> "idle"],
                user_id |-> [t \in RateThreads |-> RateUser],
                keys |-> [t \in RateThreads |-> GetCurrentKeys(RateStart)],
                hourly_count |-> [t \in RateThreads |-> 0],
                daily_count |-> [t \in RateThreads |-> 0],
                allowed |-> [t \in RateThreads |-> TRUE],
                calls |-> 0]

\* the hour passes
RateTick ==
    /\ rl.clock < RateStart + RateClock
    /\ rl' = [rl EXCEPT !.clock = @ + 1]

\* handle_message calls check_and_record(user_id, chat_type)
RateCall(t, user_id) ==
    /\ rl.pc[t] = "idle"
    /\ rl.calls < MaxRateCalls
    /\ rl' = [rl EXCEPT !.pc[t] = "called", !.user_id[t] = user_id,
                        !.calls = @ + 1]

\* check_and_record up to "with self._lock": the admin returns (True, None),
\* the others compute their keys
RateGate(t, chat_type) ==
    /\ rl.pc[t] = "called"
    /\ rl' = IF ~ShouldRateLimit(rl.user_id[t], chat_type)
             THEN [rl EXCEPT !.pc[t] = "idle", !.allowed[t] = TRUE]
             ELSE [rl EXCEPT !.pc[t] = "keyed",
                             !.keys[t] = GetCurrentKeys(rl.clock)]

MutLockFree(owner) == TRUE
\* "with self._lock" is entered when no other thread is inside it
LockFree(owner) == owner = "free"

\* the rows of the user after the cleanup that is tried when more than
\* CleanupInterval seconds have passed since the last one; a cleanup that
\* raises is logged and leaves _last_cleanup_timestamp alone
Due(clock, last_cleanup) == 3600 * clock - 3600 * last_cleanup > CleanupInterval

\* check_and_record from "with self._lock" to the two get_usage calls
RateEnter(t, ok) ==
    /\ rl.pc[t] = "keyed"
    /\ LockFree(rl.lock)
    /\ \E u \in {rl.user_id[t]}, clean \in {Due(rl.clock, rl.last_cleanup) /\ ok} :
       \E hourly \in {IF clean THEN CleanupUsage(rl.hourly[u], HourlyKeys(rl.clock))
                      ELSE rl.hourly[u]},
          daily \in {IF clean THEN CleanupUsage(rl.daily[u], DailyKeys(rl.clock))
                     ELSE rl.daily[u]} :
          rl' = [rl EXCEPT !.lock = t,
                           !.pc[t] = "read",
                           !.last_cleanup = IF clean THEN rl.clock ELSE @,
                           !.hourly[u] = hourly,
                           !.daily[u] = daily,
                           !.hourly_count[t] = GetUsage(hourly, rl.keys[t].hour_key),
                           !.daily_count[t] = GetUsage(daily, rl.keys[t].day_key)]

\* check_and_record from the two limit tests to the end of "with self._lock"
RateLeave(t) ==
    /\ rl.pc[t] = "read"
    /\ \E u \in {rl.user_id[t]}, hk \in {rl.keys[t].hour_key},
          dk \in {rl.keys[t].day_key} :
          rl' = IF rl.hourly_count[t] >= UserRateLimitHourly
                   \/ rl.daily_count[t] >= UserRateLimitDaily
                THEN [rl EXCEPT !.lock = IF @ = t THEN "free" ELSE @,
                                !.pc[t] = "idle",
                                !.allowed[t] = FALSE]
                ELSE [rl EXCEPT !.lock = IF @ = t THEN "free" ELSE @,
                                !.pc[t] = "idle",
                                !.allowed[t] = TRUE,
                                !.hourly[u] = SetUsage(@, hk, rl.hourly_count[t] + 1),
                                !.daily[u] = SetUsage(@, dk, rl.daily_count[t] + 1),
                                !.admitted_hourly =
                                    SetUsage(@, hk, GetUsage(@, hk) + 1),
                                !.admitted_daily =
                                    SetUsage(@, dk, GetUsage(@, dk) + 1)]

\* ======================================================================
\* OnetimeCodeManager (src/utils.py)
\* ======================================================================
CodeIdle == ic = <<>>

Codes == {"K1", "K2"}
CodeRoles == {"user", "admin"}
CodeThreads == {"t1", "t2"}
NoRole == "none"
NoRow == "absent"

\* the table invitation_codes of a new store, and what the calls have
\* returned so far: granted counts the calls of validate_and_consume that
\* returned a role, revoked the calls of revoke_code that returned True
CodeInit ==
    ic = [status |-> [c \in Codes |-> NoRow],
          role |-> [c \in Codes |-> NoRole],
          used_by |-> [c \in Codes |-> NoRole],
          pc |-> [t \in CodeThreads |-> "idle"],
          op |-> [t \in CodeThreads |-> "consume"],
          code |-> [t \in CodeThreads |-> "K1"],
          result |-> [t \in CodeThreads |-> NoRole],
          granted |-> [c \in Codes |-> 0],
          revoked |-> [c \in Codes |-> 0],
          calls |-> 0]

\* Database.create_invitation_code: the row is inserted with status 'active'
CreateInvitationCode(t, code, role) ==
    [t EXCEPT !.status[code] = "active", !.role[code] = role]

MutConsumeInvitationCode(t, code, used_by) ==
    IF t.status[code] # NoRow
    THEN [table |-> [t EXCEPT !.status[code] = "used", !.used_by[code] = used_by],
          result |-> t.role[code]]
    ELSE [table |-> t, result |-> NoRole]
\* Database.consume_invitation_code: UPDATE ... SET status='used' WHERE code=?
\* AND status='active' RETURNING role, and the role of the row or None
ConsumeInvitationCode(t, code, used_by) ==
    IF t.status[code] = "active"
    THEN [table |-> [t EXCEPT !.status[code] = "used", !.used_by[code] = used_by],
          result |-> t.role[code]]
    ELSE [table |-> t, result |-> NoRole]

\* Database.revoke_invitation_code: UPDATE ... SET status='revoked' WHERE
\* code=? AND status='active', and rowcount > 0
RevokeInvitationCode(t, code) ==
    IF t.status[code] = "active"
    THEN [table |-> [t EXCEPT !.status[code] = "revoked"], result |-> TRUE]
    ELSE [table |-> t, result |-> FALSE]

\* OnetimeCodeManager.generate_code: a code that is not in the table is drawn
\* and its row is created
GenerateCode(code, role) ==
    /\ ic.status[code] = NoRow
    /\ ic' = CreateInvitationCode(ic, code, role)

\* a handler thread calls validate_and_consume(code, used_by) or
\* revoke_code(code) and comes to "with self._lock"
CodeCall(t, op, code) ==
    /\ ic.pc[t] = "idle"
    /\ ic.calls < MaxCodeCalls
    /\ ic' = [ic EXCEPT !.pc[t] = "called", !.op[t] = op, !.code[t] = code,
                        !.calls = @ + 1]

\* OnetimeCodeManager.validate_and_consume inside "with self._lock"
ValidateAndConsume(t) ==
    /\ ic.pc[t] = "called"
    /\ ic.op[t] = "consume"
    /\ \E r \in {ConsumeInvitationCode(ic, ic.code[t], t)} :
          ic' = [r.table EXCEPT !.pc[t] = "idle",
                                !.result[t] = r.result,
                                !.granted[ic.code[t]] =
                                    IF r.result # NoRole THEN @ + 1 ELSE @]

\* OnetimeCodeManager.revoke_code inside "with self._lock"
RevokeCode(t) ==
    /\ ic.pc[t] = "called"
    /\ ic.op[t] = "revoke"
    /\ \E r \in {RevokeInvitationCode(ic, ic.code[t])} :
          ic' = [r.table EXCEPT !.pc[t] = "idle",
                                !.result[t] = IF r.result THEN "revoked" ELSE NoRole,
                                !.revoked[ic.code[t]] = IF r.result THEN @ + 1 ELSE @]

\* the models that leave the locks, the rate limiter and the invitation
\* codes alone
OtherIdle == DeadIdle /\ RateIdle /\ CodeIdle

\* ======================================================================
\* ProviderManager (src/utils.py)
\* ======================================================================
\* the provider names a configuration may use (unique in AI_PROVIDERS)
ProviderNames == {"grok", "deepseek", "gemini", "Qwen"}
\* what user_model_prefs may hold for the user: nothing, a name, a name in
\* another case, a name that is not configured
StoredPrefs == {"", "grok", "Grok", "deepseek", "qwen", "Qwen", "other"}
NoName == ""

\* str.lower()
Lower(name) == CASE name = "Grok" -> "grok" [] name = "Qwen" -> "qwen" [] OTHER -> name

\* Config.AI_PROVIDERS: the names of the entries, each name once
Configs ==
    {config \in UNION {[1..n -> ProviderNames] : n \in 1..MaxProviders} :
        \A i, j \in 1..Len(config) : i # j => config[i] # config[j]}

\* _init_providers: the providers whose client was created, in configuration
\* order
InitProviders(config, failed) == SelectSeq(config, LAMBDA name : name \notin failed)

InList(list, name) == \E i \in 1..Len(list) : list[i] = name

\* _name_map.get(key): {name.lower(): name for name in self.provider_list}
NameMapGet(provider_list, key) ==
    LET at == {i \in 1..Len(provider_list) : Lower(provider_list[i]) = key}
    IN IF at = {} THEN NoName
       ELSE provider_list[CHOOSE i \in at : \A j \in at : j <= i]

\* get_user_provider_name: the name returned and the stored preference after
\* the call
GetUserProviderName(provider_list, services, pref) ==
    IF pref # NoName /\ pref \in services THEN [name |-> pref, pref |-> pref]
    ELSE IF pref # NoName /\ NameMapGet(provider_list, Lower(pref)) \in services
    THEN [name |-> NameMapGet(provider_list, Lower(pref)),
          pref |-> NameMapGet(provider_list, Lower(pref))]
    ELSE [name |-> provider_list[1], pref |-> pref]

\* get_service_chain: the names the generator yields when it is run to its end
MutServiceChain(provider_list, services, preferred) ==
    SelectSeq(provider_list, LAMBDA name : name \in services)
ServiceChain(provider_list, services, preferred) ==
    (IF preferred \in services THEN <<preferred>> ELSE <<>>)
    \o SelectSeq(provider_list, LAMBDA name : name # preferred /\ name \in services)

ChainIdle ==
    pv = [pc |-> "idle", provider_list |-> <<>>, services |-> {}, pref |-> NoName,
          preferred |-> NoName, chain |-> <<>>]

\* ProviderManager.__init__ has returned (at least one provider was loaded)
ChainInit ==
    \E config \in Configs, failed \in SUBSET ProviderNames, pref \in StoredPrefs :
        /\ InitProviders(config, failed) # <<>>
        /\ \A name \in failed : InList(config, name)
        /\ pv = [pc |-> "call", provider_list |-> InitProviders(config, failed),
                 services |-> {name \in ProviderNames : InList(InitProviders(config, failed), name)},
                 pref |-> pref, preferred |-> NoName, chain |-> <<>>]

\* get_service_chain(user_id) is run to its end
ChainRun ==
    /\ pv.pc = "call"
    /\ \E r \in {GetUserProviderName(pv.provider_list, pv.services, pv.pref)} :
          pv' = [pv EXCEPT !.pc = "done", !.pref = r.pref, !.preferred = r.name,
                           !.chain = ServiceChain(pv.provider_list, pv.services, r.name)]

\* ======================================================================
\* core_reply_cycle (src/handlers.py)
\* ======================================================================
ReplyChat == FlowChat
\* the transcript lengths of the chat when the reply task starts; its last
\* turn is the user turn the task replies to
ReplyLengths == {1, 3}
\* Config.AI_PROVIDERS as shipped, its first entries
ReplyConfig ==
    SubSeq(<<"grok", "deepseek", "gemini", "Qwen">>, 1,
           IF MaxProviders < 4 THEN MaxProviders ELSE 4)
\* the stored preference of the user of the reply task
ReplyPrefs == {NoName, "gemini"}

\* `err_msg[:50]`
ErrorCut == 50
\* str(e) of an exception of a backend call, as its characters
ErrShort == <<"t", "i", "m", "e", "o", "u", "t">>
ErrLong == [i \in 1..(ErrorCut + 1) |-> "x"]
\* s[:n]
Cut(s, n) == SubSeq(s, 1, IF Len(s) < n THEN Len(s) ELSE n)

\* ai_reply = None
NoText == [some |-> FALSE, val |-> ""]
\* `if ai_reply:`
HasText(ai_reply) == ai_reply.some /\ ai_reply.val # ""
ReplyText(p_name) == "reply of " \o p_name

\* AIService.get_chat_response: one completions.create call; it returns
\* message.content.strip() or the exception of the call goes up
GetChatResponses(p_name) ==
    {[raised |-> FALSE, val |-> ReplyText(p_name), err_msg |-> <<>>],
     [raised |-> FALSE, val |-> "", err_msg |-> <<>>],
     [raised |-> TRUE, val |-> "", err_msg |-> ErrShort],
     [raised |-> TRUE, val |-> "", err_msg |-> ErrLong]}

\* f"{p_name}: {err_msg[:50]}..."
Summary(p_name, err_msg) == <<p_name, ": ", Cut(err_msg, ErrorCut), "...">>
\* the message of the exception raised after the loop: a fixed head, then
\* '; '.join(error_log)
Aggregate(error_log) == [head |-> "all providers failed: ", joined |-> error_log]

\* _get_context_slice_for_reply
ContextSlice(context, target_uuid) ==
    LET at == {i \in 1..Len(context) : context[i].uuid = target_uuid}
    IN IF target_uuid = NoUuid \/ at = {} THEN context
       ELSE SubSeq(context, 1, CHOOSE i \in at : \A j \in at : i <= j)
\* messages_payload
Payload(api_context) ==
    <<[role |-> "system", content |-> "sys"]>>
    \o [i \in 1..Len(api_context) |->
           [role |-> api_context[i].role, content |-> api_context[i].content]]

\* ai_msg_obj
AiMsgObj(u, ai_reply, user_msg_uuid, success_provider) ==
    [uuid |-> u, role |-> "assistant", content |-> ai_reply,
     reply_to |-> user_msg_uuid, model |-> success_provider]

\* the end of a `with chat_lock:` block
MutReleased(owner) == owner
Released(owner) == "free"

\* `if not ai_reply: raise Exception(...)`
MutAllFailed(ai_reply) == FALSE
AllFailed(ai_reply) == ~HasText(ai_reply)

\* the loop body after get_chat_response: `if ai_reply: ... break`, or the
\* except clause
MutAfterCall(r, p_name, res) ==
    IF res.raised
    THEN [r EXCEPT !.pc = "loop", !.error_log = Append(@, Summary(p_name, res.err_msg))]
    ELSE [r EXCEPT !.pc = "loop", !.ai_reply = Some(res.val),
                   !.success_provider = IF HasText(Some(res.val)) THEN p_name ELSE @]
AfterCall(r, p_name, res) ==
    IF res.raised
    THEN [r EXCEPT !.pc = "loop", !.error_log = Append(@, Summary(p_name, res.err_msg))]
    ELSE IF HasText(Some(res.val))
    THEN [r EXCEPT !.pc = "after", !.ai_reply = Some(res.val), !.success_provider = p_name]
    ELSE [r EXCEPT !.pc = "loop", !.ai_reply = Some(res.val)]

ReplyIdle ==
    rp = [pc |-> "idle", user_msg_uuid |-> NoUuid, chat_lock |-> "free", i |-> 0,
          payload |-> <<>>, ai_reply |-> NoText, success_provider |-> NoName,
          error_log |-> <<>>, error |-> None, sent |-> FALSE, ai_msg_obj |-> None,
          invoked |-> <<>>, results |-> <<>>, reply_sends |-> 0, failure_sends |-> 0,
          failure_delivered |-> FALSE, others |-> 0, expect |-> <<>>]

\* core_reply_cycle(chat_id, user_id, message_to_reply, user_msg_uuid) is
\* taken from the chat's queue: the user turn is the last of the transcript
ReplyInit ==
    /\ cache_keys = <<>>
    /\ cache = [c \in CacheChats |-> Absent]
    /\ \E n \in ReplyLengths :
          /\ store = [c \in CacheChats |->
                         IF c = ReplyChat THEN SaveChatHistory(<<>>, Transcript(n)) ELSE <<>>]
          /\ nextUuid = n + 1
          /\ rp = [pc |-> "start", user_msg_uuid |-> n, chat_lock |-> "free", i |-> 0,
                   payload |-> <<>>, ai_reply |-> NoText, success_provider |-> NoName,
                   error_log |-> <<>>, error |-> None, sent |-> FALSE,
                   ai_msg_obj |-> None, invoked |-> <<>>, results |-> <<>>,
                   reply_sends |-> 0, failure_sends |-> 0, failure_delivered |-> FALSE,
                   others |-> 0, expect |-> Transcript(n)]
    /\ th = [t \in Threads \cup {Main} |-> Local]
    /\ written = [c \in CacheChats |-> <<>>]
    /\ \E pref \in ReplyPrefs :
          pv = [pc |-> "call", provider_list |-> ReplyConfig,
                services |-> {name \in ProviderNames : InList(ReplyConfig, name)},
                pref |-> pref, preferred |-> NoName, chain |-> <<>>]

\* get_lock, build_effective_system_prompt, send_chat_action: before the try;
\* ok: send_chat_action did not raise
ReplyStart(ok) ==
    /\ rp.pc = "start"
    /\ rp' = [rp EXCEPT !.pc = IF ok THEN "lock" ELSE "escaped"]
    /\ UNCHANGED <<cache_keys, cache, store, nextUuid, pv>>

\* `with chat_lock:` is entered (an RLock)
ReplyAcquire ==
    /\ rp.pc \in {"lock", "lock2"}
    /\ rp.chat_lock \in {"free", "reply"}
    /\ rp' = [rp EXCEPT !.chat_lock = "reply",
                        !.pc = IF @ = "lock" THEN "snapshot" ELSE "splice"]
    /\ UNCHANGED <<cache_keys, cache, store, nextUuid, pv>>

\* the snapshot: get_context_slice_for_reply and messages_payload
ReplySnapshot ==
    /\ rp.pc = "snapshot"
    /\ \E g \in {GetContext(World, ReplyChat, now)} :
          /\ SetWorld(g.w)
          /\ rp' = [rp EXCEPT !.pc = "chain", !.chat_lock = Released(@),
                              !.payload = Payload(ContextSlice(g.result, rp.user_msg_uuid))]
    /\ UNCHANGED <<nextUuid, pv>>

\* `for p_name, service in provider_manager.get_service_chain(user_id)`
ReplyChain ==
    /\ rp.pc = "chain"
    /\ ChainRun
    /\ rp' = [rp EXCEPT !.pc = "loop"]
    /\ UNCHANGED <<cache_keys, cache, store, nextUuid>>

\* the generator yields the next backend and get_chat_response is called, or
\* the loop is over
ReplyInvoke ==
    /\ rp.pc = "loop"
    /\ rp' = IF rp.i < Len(pv.chain)
             THEN [rp EXCEPT !.pc = "call", !.i = @ + 1,
                             !.invoked = Append(@, pv.chain[rp.i + 1])]
             ELSE [rp EXCEPT !.pc = "after"]
    /\ UNCHANGED <<cache_keys, cache, store, nextUuid, pv>>

\* get_chat_response returns or raises
ReplyResult(res) ==
    /\ rp.pc = "call"
    /\ res \in GetChatResponses(pv.chain[rp.i])
    /\ rp' = [AfterCall(rp, pv.chain[rp.i], res) EXCEPT !.results = Append(@, res)]
    /\ UNCHANGED <<cache_keys, cache, store, nextUuid, pv>>

\* after the loop
ReplyAfter ==
    /\ rp.pc = "after"
    /\ rp' = IF AllFailed(rp.ai_reply)
             THEN [rp EXCEPT !.pc = "except", !.error = Some(Aggregate(rp.error_log))]
             ELSE [rp EXCEPT !.pc = "deliver"]
    /\ UNCHANGED <<cache_keys, cache, store, nextUuid, pv>>

\* safe_reply_to(message_to_reply, ai_reply); ok: it did not raise
ReplyDeliver(ok) ==
    /\ rp.pc = "deliver"
    /\ rp' = IF ok
             THEN [rp EXCEPT !.pc = "lock2", !.sent = TRUE, !.reply_sends = @ + 1,
                             !.ai_msg_obj = Some(AiMsgObj(nextUuid, rp.ai_reply.val,
                                                          rp.user_msg_uuid,
                                                          rp.success_provider))]
             ELSE [rp EXCEPT !.pc = "done", !.reply_sends = @ + 1]
    /\ nextUuid' = IF ok THEN nextUuid + 1 ELSE nextUuid
    /\ UNCHANGED <<cache_keys, cache, store, pv>>

\* insert_ai_reply under chat_lock; ok: a store write of it commits
ReplySplice(ok) ==
    /\ rp.pc = "splice"
    /\ \E w \in {InsertAiReply(World, ReplyChat, rp.user_msg_uuid, rp.ai_msg_obj.val,
                                ok, now)} : SetWorld(w)
    /\ rp' = [rp EXCEPT !.pc = "usage", !.chat_lock = Released(@)]
    /\ UNCHANGED <<nextUuid, pv>>

\* async_logger.log and usage_manager.record_usage; ok: neither raises
ReplyUsage(ok) ==
    /\ rp.pc = "usage"
    /\ rp' = IF ok THEN [rp EXCEPT !.pc = "done"]
             ELSE [rp EXCEPT !.pc = "except", !.error = Some([head |-> "usage", joined |-> <<>>])]
    /\ UNCHANGED <<cache_keys, cache, store, nextUuid, pv>>

\* `except Exception as e:` of the whole try: log_exception and one
\* safe_reply_to with the failure text; ok: it did not raise
ReplyExcept(ok) ==
    /\ rp.pc = "except"
    /\ rp' = [rp EXCEPT !.pc = "done", !.failure_sends = @ + 1,
                        !.failure_delivered = ok]
    /\ UNCHANGED <<cache_keys, cache, store, nextUuid, pv>>

\* a handle_message thread takes another inbound turn of the chat: its
\* section under chat_lock
ReplyOther(ok) ==
    /\ rp.pc \notin {"idle", "done", "escaped"}
    /\ rp.chat_lock = "free"
    /\ rp.others < MaxInbound
    /\ \E r \in {HandleMessageLocked(World, ReplyChat, "private",
                                      Turn(nextUuid, "user", "p", NoReply), ok, now)} :
          /\ SetWorld(r.w)
          /\ rp' = [rp EXCEPT !.others = @ + 1,
                              !.expect = IF HasKey(r.w.keys, ReplyChat)
                                         THEN r.w.ent[ReplyChat].data ELSE @]
    /\ nextUuid' = nextUuid + 1
    /\ UNCHANGED pv

\* ======================================================================
\* clock and shutdown signal
\* ======================================================================
\* time.time() moves on
Tick ==
    /\ now < MaxTicks * TickSeconds
    /\ now' = now + TickSeconds
    /\ UNCHANGED shutdown_event

\* main._signal_handler / _do_shutdown: _shutdown_event.set()
SignalShutdown ==
    /\ ~shutdown_event
    /\ shutdown_event' = TRUE
    /\ UNCHANGED now

Init ==
    /\ now = 0
    /\ shutdown_event = FALSE
    /\ QueueInit
    /\ LockInit
    /\ CacheInit
    /\ SeqInit
    /\ FlushInit
    /\ PolicyIdle
    /\ FlowIdle
    /\ ChainIdle
    /\ ReplyIdle
    /\ OtherIdle

QueueNext ==
    \/ \E t \in Callers, c \in Chats : EnqueueLocked(t, c) /\ UNCHANGED <<lvars, cvars, svars, xvars>>
    \/ \E t \in Callers : EnqueuePut(t) /\ UNCHANGED <<lvars, cvars, svars, xvars>>
    \/ \E q \in QIds : WorkerLoop(q) /\ UNCHANGED <<lvars, cvars, svars, xvars>>
    \/ \E q \in QIds : WorkerGet(q) /\ UNCHANGED <<lvars, cvars, svars, xvars>>
    \/ \E q \in QIds : WorkerEmpty(q) /\ UNCHANGED <<lvars, cvars, svars, xvars>>
    \/ \E q \in QIds : WorkerIdleCheck(q) /\ UNCHANGED <<lvars, cvars, svars, xvars>>
    \/ \E q \in QIds : WorkerStart(q) /\ UNCHANGED <<lvars, cvars, svars, xvars>>
    \/ \E q \in QIds, res \in {"ok", "raised"} : WorkerFinish(q, res) /\ UNCHANGED <<lvars, cvars, svars, xvars>>
    \/ Tick /\ UNCHANGED <<qvars, lvars, cvars, svars, xvars>>
    \/ SignalShutdown /\ UNCHANGED <<qvars, lvars, cvars, svars, xvars>>

QueueSpec == Init /\ [][QueueNext]_vars

LockNext ==
    \/ \E h \in Handlers, c \in Chats : GetLock(h, c) /\ UNCHANGED <<qvars, cvars, svars, xvars>>
    \/ \E h \in Handlers : EnterSection(h) /\ UNCHANGED <<qvars, cvars, svars, xvars>>
    \/ \E h \in Handlers : LeaveSection(h) /\ UNCHANGED <<qvars, cvars, svars, xvars>>
    \/ \E h \in Handlers : HandlerReturn(h) /\ UNCHANGED <<qvars, cvars, svars, xvars>>
    \/ SweepStart /\ UNCHANGED <<qvars, cvars, svars, xvars>>
    \/ \E c \in Chats : SweepVisit(c) /\ UNCHANGED <<qvars, cvars, svars, xvars>>
    \/ SweepRemove /\ UNCHANGED <<qvars, cvars, svars, xvars>>
    \/ SweepExit /\ UNCHANGED <<qvars, cvars, svars, xvars>>
    \/ Tick /\ UNCHANGED <<qvars, lvars, cvars, svars, xvars>>
    \/ SignalShutdown /\ UNCHANGED <<qvars, lvars, cvars, svars, xvars>>

LockSpec == Init /\ [][LockNext]_vars

CacheNext ==
    \/ \E t \in Clients, c \in CacheChats : CacheGet(t, c) /\ UNCHANGED <<qvars, lvars, svars, xvars>>
    \/ \E t \in Clients : CacheRelease(t) /\ UNCHANGED <<qvars, lvars, svars, xvars>>
    \/ \E t \in Clients, f \in BOOLEAN : CacheUpdate(t, f) /\ UNCHANGED <<qvars, lvars, svars, xvars>>
    \/ \E t \in Threads, ok \in BOOLEAN : EvictSave(t, ok) /\ UNCHANGED <<qvars, lvars, svars, xvars>>
    \/ \E t \in Threads : EvictReadmit(t) /\ UNCHANGED <<qvars, lvars, svars, xvars>>
    \/ \E t \in Clients : FlushSnapshot(t) /\ UNCHANGED <<qvars, lvars, svars, xvars>>
    \/ \E t \in Clients, ok \in BOOLEAN : FlushSave(t, ok) /\ UNCHANGED <<qvars, lvars, svars, xvars>>
    \/ \E t \in Clients : FlushReset(t) /\ UNCHANGED <<qvars, lvars, svars, xvars>>
    \/ \E t \in Clients : UpdateReturn(t) /\ UNCHANGED <<qvars, lvars, svars, xvars>>
    \/ MaintEvict /\ UNCHANGED <<qvars, lvars, svars, xvars>>
    \/ CacheTick /\ UNCHANGED <<qvars, lvars, cvars, svars, xvars>>

CacheSpec == Init /\ [][CacheNext]_vars

SeqNext ==
    \/ \E t \in Clients, c \in SeqChats : SeqGet(t, c) /\ UNCHANGED <<qvars, lvars, xvars>>
    \/ \E t \in Clients : SeqAppend(t) /\ UNCHANGED <<qvars, lvars, xvars>>
    \/ \E t \in Clients, f \in BOOLEAN : SeqUpdate(t, f) /\ UNCHANGED <<qvars, lvars, xvars>>
    \/ SeqMaint /\ UNCHANGED <<qvars, lvars, xvars>>
    \/ CacheTick /\ UNCHANGED <<qvars, lvars, cvars, svars, xvars>>

SeqSpec == Init /\ [][SeqNext]_vars

\* the cache with _do_shutdown, from a state where all but the last
\* MaxFlushTurns uuids are used
FlushSpecInit ==
    /\ now = 0
    /\ shutdown_event = FALSE
    /\ QueueInit
    /\ LockInit
    /\ CacheInitAt(MaxTurns + 1 - MaxFlushTurns)
    /\ SeqInit
    /\ FlushInit
    /\ PolicyIdle
    /\ FlowIdle
    /\ ChainIdle
    /\ ReplyIdle
    /\ OtherIdle

\* a step of another thread while flush_all runs
Unquiet == fl' = [fl EXCEPT !.quiet = FALSE]

\* what a step of the model with _do_shutdown leaves alone
FlushFrame == Running /\ UNCHANGED <<qvars, lvars, svars, yvars, fvars, pvars, rvars, ovars>>

FlushNext ==
    \/ \E t \in Clients, c \in FlushChats : CacheGet(t, c) /\ Unquiet /\ FlushFrame
    \/ \E t \in Clients : CacheRelease(t) /\ Unquiet /\ FlushFrame
    \/ \E t \in Clients, f \in BOOLEAN : CacheUpdate(t, f) /\ Unquiet /\ FlushFrame
    \/ \E t \in Threads, ok \in BOOLEAN : EvictSave(t, ok) /\ Unquiet /\ FlushFrame
    \/ \E t \in Threads : EvictReadmit(t) /\ Unquiet /\ FlushFrame
    \/ \E t \in Clients : FlushSnapshot(t) /\ Unquiet /\ FlushFrame
    \/ \E t \in Clients, ok \in BOOLEAN :
          /\ FlushSave(t, ok)
          /\ fl' = [fl EXCEPT !.quiet = FALSE,
                       !.failed = IF ok THEN @ ELSE @ \cup {th[t].chat}]
          /\ FlushFrame
    \/ \E t \in Clients : FlushReset(t) /\ Unquiet /\ FlushFrame
    \/ \E t \in Clients : UpdateReturn(t) /\ Unquiet /\ FlushFrame
    \/ MaintEvict /\ Unquiet /\ FlushFrame
    \/ CacheTick /\ UNCHANGED <<cvars, fl>> /\ FlushFrame
    \/ ShutdownBegin /\ FlushFrame
    \/ FlushAllSnapshot /\ FlushFrame
    \/ FlushSnapshot(Main) /\ UNCHANGED fl /\ FlushFrame
    \/ \E ok \in BOOLEAN :
          /\ FlushSave(Main, ok)
          /\ fl' = [fl EXCEPT !.attempted = @ \cup {th[Main].chat}, !.allok = @ /\ ok]
          /\ FlushFrame
    \/ FlushReset(Main) /\ UNCHANGED fl /\ FlushFrame
    \/ FlushAllNext /\ FlushFrame
    \/ ProcessExit /\ FlushFrame

FlushSpec == FlushSpecInit /\ [][FlushNext]_vars

\* thread t is inside clear_context: the only update_context call with an
\* empty transcript
InClear(t) == th[t].force /\ th[t].ctx = <<>>

\* clear_context takes the chat lock and calls update_context(chat_id, [],
\* force_save=True): the part of update_context under _cache_lock
ClearUpdate(t, c) ==
    /\ t \in Clients
    /\ th[t].pc = "idle"
    /\ ChatFree(t, c)
    /\ fl.clears < MaxClears
    /\ fl' = [fl EXCEPT !.quiet = FALSE, !.clears = @ + 1]
    /\ LET r == UpdateContextLocked(cache_keys, cache, c, <<>>, TRUE, now)
           pend == DropClean(r.pending)
       IN /\ cache_keys' = r.keys
          /\ cache' = r.ent
          /\ written' = [written EXCEPT ![c] = <<>>]
          /\ th' = [th EXCEPT ![t] = [Local EXCEPT !.pc = AfterPending(pend, "snap"),
                        !.chat = c, !.force = TRUE, !.pending = pend, !.ret = "snap"]]
    /\ UNCHANGED <<now, shutdown_event, store, nextUuid>>

\* clear_context after update_context has returned: set_cooldown(chat_id, 0)
\* and the end of the `with` block
ClearSetCooldown(t) ==
    /\ th[t].pc = "ret"
    /\ InClear(t)
    /\ cache' = SetCooldown(cache_keys, cache, th[t].chat, 0)
    /\ th' = [th EXCEPT ![t] = Local]
    /\ UNCHANGED <<now, shutdown_event, cache_keys, store, nextUuid, written>>

\* the cache with /clear and the evictions of the maintenance thread
ClearNext ==
    \/ \E t \in Clients, c \in FlushChats : CacheGet(t, c) /\ Unquiet /\ FlushFrame
    \/ \E t \in Clients : CacheRelease(t) /\ Unquiet /\ FlushFrame
    \/ \E t \in Clients, f \in BOOLEAN : CacheUpdate(t, f) /\ Unquiet /\ FlushFrame
    \/ \E t \in Clients, c \in FlushChats : CacheSetCooldown(t, c) /\ Unquiet /\ FlushFrame
    \/ \E t \in Clients, c \in FlushChats : ClearUpdate(t, c) /\ FlushFrame
    \/ \E t \in Clients : ClearSetCooldown(t) /\ Unquiet /\ FlushFrame
    \/ \E t \in Threads, ok \in BOOLEAN : EvictSave(t, ok) /\ Unquiet /\ FlushFrame
    \/ \E t \in Threads : EvictReadmit(t) /\ Unquiet /\ FlushFrame
    \/ \E t \in Clients : FlushSnapshot(t) /\ Unquiet /\ FlushFrame
    \/ \E t \in Clients, ok \in BOOLEAN : FlushSave(t, ok) /\ Unquiet /\ FlushFrame
    \/ \E t \in Clients : FlushReset(t) /\ Unquiet /\ FlushFrame
    \/ \E t \in Clients : ~InClear(t) /\ UpdateReturn(t) /\ Unquiet /\ FlushFrame
    \/ MaintEvict /\ Unquiet /\ FlushFrame
    \/ CacheTick /\ UNCHANGED <<cvars, fl>> /\ FlushFrame

ClearSpec == FlushSpecInit /\ [][ClearNext]_vars

\* the cache with set_cooldown calls, from a state where all but the last
\* MaxCooldownTurns uuids are used
CooldownInit ==
    /\ now = 0
    /\ shutdown_event = FALSE
    /\ QueueInit
    /\ LockInit
    /\ CacheInitAt(MaxTurns + 1 - MaxCooldownTurns)
    /\ SeqInit
    /\ FlushInit
    /\ PolicyIdle
    /\ FlowIdle
    /\ ChainIdle
    /\ ReplyIdle
    /\ OtherIdle

CooldownNext ==
    \/ CacheNext
    \/ \E t \in Clients, c \in CacheChats : CacheSetCooldown(t, c) /\ UNCHANGED <<qvars, lvars, svars, xvars>>

CooldownSpec == CooldownInit /\ [][CooldownNext]_vars

\* evaluations of check_and_prepare_task over every chat type, length and
\* cooldown
PolicySpecInit ==
    /\ now = 0
    /\ shutdown_event = FALSE
    /\ QueueInit
    /\ LockInit
    /\ CacheInit
    /\ SeqInit
    /\ FlushInit
    /\ PolicyInit
    /\ FlowIdle
    /\ ChainIdle
    /\ ReplyIdle
    /\ OtherIdle

PolicyNext ==
    \/ PolicyEvaluate /\ UNCHANGED <<now, shutdown_event, qvars, lvars, cvars, svars, fl, fvars,
                                   pvars, rvars, ovars>>

PolicySpec == PolicySpecInit /\ [][PolicyNext]_vars

\* handle_message, core_reply_cycle and /clear of one private chat that
\* starts with its transcript in the store
FlowSpecInit ==
    /\ now = 0
    /\ shutdown_event = FALSE
    /\ QueueInit
    /\ LockInit
    /\ FlowInit
    /\ SeqInit
    /\ FlushInit
    /\ PolicyIdle
    /\ ChainIdle
    /\ ReplyIdle
    /\ OtherIdle

FlowFrame == UNCHANGED <<qvars, lvars, svars, fl, yvars, pvars, rvars, ovars>>

FlowNext ==
    \/ \E h \in FlowHandlers, ok \in BOOLEAN : FlowInbound(h, ok) /\ FlowFrame
    \/ \E h \in FlowHandlers, ok \in BOOLEAN : FlowSummaryApply(h, ok) /\ FlowFrame
    \/ \E h \in FlowHandlers : FlowSummaryNothing(h) /\ FlowFrame
    \/ \E u \in hm.replies, ok \in BOOLEAN : FlowReply(u, ok) /\ FlowFrame
    \/ \E ok \in BOOLEAN : FlowClear(ok) /\ FlowFrame
    \/ FlowMaint /\ FlowFrame
    \/ CacheTick /\ UNCHANGED <<cvars, fvars>> /\ FlowFrame

FlowSpec == FlowSpecInit /\ [][FlowNext]_vars

\* handle_message on the threads of the bot's pool and the worker of the
\* chat's queue
OrderNext ==
    \/ \E h \in FlowHandlers, ok \in BOOLEAN : OrderInbound(h, ok) /\ FlowFrame
    \/ \E h \in FlowHandlers, got \in BOOLEAN, ok \in BOOLEAN :
          OrderSummary(h, got, ok) /\ FlowFrame
    \/ \E h \in FlowHandlers : OrderEnqueue(h) /\ FlowFrame
    \/ \E ok \in BOOLEAN : OrderExecute(ok) /\ FlowFrame

OrderSpec == FlowSpecInit /\ [][OrderNext]_vars

\* the transcript of one chat, private or of a group
TurnSpecInit ==
    /\ now = 0
    /\ shutdown_event = FALSE
    /\ QueueInit
    /\ LockInit
    /\ TurnInit
    /\ SeqInit
    /\ FlushInit
    /\ PolicyIdle
    /\ ChainIdle
    /\ ReplyIdle
    /\ OtherIdle

AdjacentSpecInit ==
    /\ now = 0
    /\ shutdown_event = FALSE
    /\ QueueInit
    /\ LockInit
    /\ AdjacentInit
    /\ SeqInit
    /\ FlushInit
    /\ PolicyIdle
    /\ ChainIdle
    /\ ReplyIdle
    /\ OtherIdle

TurnNext ==
    \/ \E h \in FlowHandlers, ok \in BOOLEAN : TurnInbound(h, ok) /\ FlowFrame
    \/ \E h \in FlowHandlers, ok \in BOOLEAN : FlowSummaryApply(h, ok) /\ FlowFrame
    \/ \E h \in FlowHandlers : FlowSummaryNothing(h) /\ FlowFrame
    \/ \E u \in hm.replies, ok \in BOOLEAN : FlowReply(u, ok) /\ FlowFrame
    \/ FlowMaint /\ FlowFrame
    \/ CacheTick /\ UNCHANGED <<cvars, fvars>> /\ FlowFrame

TurnSpec == TurnSpecInit /\ [][TurnNext]_vars

\* the same with the /clear command
AdjacentNext ==
    \/ \E h \in FlowHandlers, ok \in BOOLEAN : TurnInbound(h, ok) /\ FlowFrame
    \/ \E h \in FlowHandlers, ok \in BOOLEAN : FlowSummaryApply(h, ok) /\ FlowFrame
    \/ \E h \in FlowHandlers : FlowSummaryNothing(h) /\ FlowFrame
    \/ \E u \in hm.replies, ok \in BOOLEAN : FlowReply(u, ok) /\ FlowFrame
    \/ \E ok \in BOOLEAN : FlowClear(ok) /\ FlowFrame
    \/ FlowMaint /\ FlowFrame
    \/ CacheTick /\ UNCHANGED <<cvars, fvars>> /\ FlowFrame

AdjacentSpec == AdjacentSpecInit /\ [][AdjacentNext]_vars

\* the same with second calls of _insert_ai_reply
SpliceNext ==
    \/ \E h \in FlowHandlers, ok \in BOOLEAN : SpliceInbound(h, ok) /\ FlowFrame
    \/ \E h \in FlowHandlers, ok \in BOOLEAN : FlowSummaryApply(h, ok) /\ FlowFrame
    \/ \E h \in FlowHandlers : FlowSummaryNothing(h) /\ FlowFrame
    \/ \E u \in hm.replies, ok \in BOOLEAN : SpliceReply(u, ok) /\ FlowFrame
    \/ \E u \in fh.answered, ok \in BOOLEAN : SpliceAgain(u, ok) /\ FlowFrame
    \/ FlowMaint /\ FlowFrame
    \/ CacheTick /\ UNCHANGED <<cvars, fvars>> /\ FlowFrame

SpliceSpec == TurnSpecInit /\ [][SpliceNext]_vars

\* the creation of an entry in a cache at, under or over its ceiling
LimitSpecInit ==
    /\ now = LimitClock
    /\ shutdown_event = FALSE
    /\ QueueInit
    /\ LockInit
    /\ LimitInit
    /\ SeqInit
    /\ FlushInit
    /\ PolicyIdle
    /\ FlowIdle
    /\ ChainIdle
    /\ ReplyIdle
    /\ OtherIdle

LimitNext ==
    \/ \E t \in Clients : LimitGet(t) /\ UNCHANGED <<qvars, lvars, svars, xvars>>
    \/ \E t \in Clients : LimitUpdate(t) /\ UNCHANGED <<qvars, lvars, svars, xvars>>
    \/ \E t \in Clients, ok \in BOOLEAN : EvictSave(t, ok) /\ UNCHANGED <<qvars, lvars, svars, xvars>>
    \/ \E t \in Clients : EvictReadmit(t) /\ UNCHANGED <<qvars, lvars, svars, xvars>>
    \/ \E t \in Clients : CacheRelease(t) /\ UNCHANGED <<qvars, lvars, svars, xvars>>
    \/ \E t \in Clients : UpdateReturn(t) /\ UNCHANGED <<qvars, lvars, svars, xvars>>

LimitSpec == LimitSpecInit /\ [][LimitNext]_vars

\* the threads of the process as they take and release the locks
DeadSpecInit ==
    /\ now = 0
    /\ shutdown_event = FALSE
    /\ QueueInit
    /\ LockInit
    /\ CacheInit
    /\ SeqInit
    /\ FlushInit
    /\ PolicyIdle
    /\ FlowIdle
    /\ ChainIdle
    /\ ReplyIdle
    /\ OtherIdle

DeadFrame ==
    UNCHANGED <<now, shutdown_event, qvars, lvars, cvars, svars, fl, yvars, fvars, pvars,
                rvars, rl, ic>>

DeadNext ==
    \/ \E t \in DeadThreads : DeadBegin(t) /\ DeadFrame
    \/ \E t \in DeadThreads : DeadAcquire(t) /\ DeadFrame
    \/ \E t \in DeadThreads : DeadTry(t) /\ DeadFrame
    \/ \E t \in DeadThreads : DeadRelease(t) /\ DeadFrame

DeadSpec == DeadSpecInit /\ [][DeadNext]_vars

\* the threads of the pool inside check_and_record
RateSpecInit ==
    /\ now = 0
    /\ shutdown_event = FALSE
    /\ QueueInit
    /\ LockInit
    /\ CacheInit
    /\ SeqInit
    /\ FlushInit
    /\ PolicyIdle
    /\ FlowIdle
    /\ ChainIdle
    /\ ReplyIdle
    /\ DeadIdle
    /\ RateInit
    /\ CodeIdle

RateFrame ==
    UNCHANGED <<now, shutdown_event, qvars, lvars, cvars, svars, fl, yvars, fvars, pvars,
                rvars, dl, ic>>

RateNext ==
    \/ RateTick /\ RateFrame
    \/ \E t \in RateThreads, user_id \in RateUsers : RateCall(t, user_id) /\ RateFrame
    \/ \E t \in RateThreads, chat_type \in {"private", "group"} :
          RateGate(t, chat_type) /\ RateFrame
    \/ \E t \in RateThreads, ok \in BOOLEAN : RateEnter(t, ok) /\ RateFrame
    \/ \E t \in RateThreads : RateLeave(t) /\ RateFrame

RateSpec == RateSpecInit /\ [][RateNext]_vars

\* the handler threads that create, consume and revoke invitation codes
CodeSpecInit ==
    /\ now = 0
    /\ shutdown_event = FALSE
    /\ QueueInit
    /\ LockInit
    /\ CacheInit
    /\ SeqInit
    /\ FlushInit
    /\ PolicyIdle
    /\ FlowIdle
    /\ ChainIdle
    /\ ReplyIdle
    /\ DeadIdle
    /\ RateIdle
    /\ CodeInit

CodeFrame ==
    UNCHANGED <<now, shutdown_event, qvars, lvars, cvars, svars, fl, yvars, fvars, pvars,
                rvars, dl, rl>>

CodeNext ==
    \/ \E code \in Codes, role \in CodeRoles : GenerateCode(code, role) /\ CodeFrame
    \/ \E t \in CodeThreads, op \in {"consume", "revoke"}, code \in Codes :
          CodeCall(t, op, code) /\ CodeFrame
    \/ \E t \in CodeThreads : ValidateAndConsume(t) /\ CodeFrame
    \/ \E t \in CodeThreads : RevokeCode(t) /\ CodeFrame

CodeSpec == CodeSpecInit /\ [][CodeNext]_vars

\* the threads that loop until the shutdown event is set
StopSpecInit ==
    /\ now = StopClock
    /\ shutdown_event = FALSE
    /\ QueueInit
    /\ StopLockInit
    /\ StopCacheInit
    /\ SeqInit
    /\ FlushInit
    /\ PolicyIdle
    /\ FlowIdle
    /\ ChainIdle
    /\ ReplyIdle
    /\ OtherIdle

\* a step of the worker of queue q
WorkerStep(q) ==
    /\ \/ WorkerLoop(q)
       \/ WorkerGet(q)
       \/ WorkerEmpty(q)
       \/ WorkerIdleCheck(q)
       \/ WorkerStart(q)
       \/ \E res \in {"ok", "raised"} : WorkerFinish(q, res)
    /\ UNCHANGED <<lvars, cvars, svars, xvars>>
\* a step of the _auto_cleanup thread
SweepStep ==
    /\ \/ SweepStart
       \/ \E c \in Chats : SweepVisit(c)
       \/ SweepRemove
       \/ SweepExit
    /\ UNCHANGED <<qvars, cvars, svars, xvars>>
\* a step of the _maintenance_worker thread
MaintStep ==
    /\ \/ MaintWait
       \/ MaintFlushStep
       \/ FlushSnapshot(Maint)
       \/ \E ok \in BOOLEAN : FlushSave(Maint, ok)
       \/ FlushReset(Maint)
       \/ MaintScan
       \/ \E ok \in BOOLEAN : EvictSave(Maint, ok)
       \/ EvictReadmit(Maint)
    /\ UNCHANGED <<qvars, lvars, svars, xvars>>

StopNext ==
    \/ EnqueueLocked(StopCaller, StopChat) /\ UNCHANGED <<lvars, cvars, svars, xvars>>
    \/ EnqueuePut(StopCaller) /\ UNCHANGED <<lvars, cvars, svars, xvars>>
    \/ \E q \in QIds : WorkerLoop(q) /\ UNCHANGED <<lvars, cvars, svars, xvars>>
    \/ \E q \in QIds : WorkerGet(q) /\ UNCHANGED <<lvars, cvars, svars, xvars>>
    \/ \E q \in QIds : WorkerEmpty(q) /\ UNCHANGED <<lvars, cvars, svars, xvars>>
    \/ \E q \in QIds : WorkerIdleCheck(q) /\ UNCHANGED <<lvars, cvars, svars, xvars>>
    \/ \E q \in QIds : WorkerStart(q) /\ UNCHANGED <<lvars, cvars, svars, xvars>>
    \/ \E q \in QIds, res \in {"ok", "raised"} :
          WorkerFinish(q, res) /\ UNCHANGED <<lvars, cvars, svars, xvars>>
    \/ SweepStart /\ UNCHANGED <<qvars, cvars, svars, xvars>>
    \/ \E c \in Chats : SweepVisit(c) /\ UNCHANGED <<qvars, cvars, svars, xvars>>
    \/ SweepRemove /\ UNCHANGED <<qvars, cvars, svars, xvars>>
    \/ SweepExit /\ UNCHANGED <<qvars, cvars, svars, xvars>>
    \/ MaintWait /\ UNCHANGED <<qvars, lvars, svars, xvars>>
    \/ MaintFlushStep /\ UNCHANGED <<qvars, lvars, svars, xvars>>
    \/ FlushSnapshot(Maint) /\ UNCHANGED <<qvars, lvars, svars, xvars>>
    \/ \E ok \in BOOLEAN : FlushSave(Maint, ok) /\ UNCHANGED <<qvars, lvars, svars, xvars>>
    \/ FlushReset(Maint) /\ UNCHANGED <<qvars, lvars, svars, xvars>>
    \/ MaintScan /\ UNCHANGED <<qvars, lvars, svars, xvars>>
    \/ \E ok \in BOOLEAN : EvictSave(Maint, ok) /\ UNCHANGED <<qvars, lvars, svars, xvars>>
    \/ EvictReadmit(Maint) /\ UNCHANGED <<qvars, lvars, svars, xvars>>
    \/ SignalShutdown /\ UNCHANGED <<qvars, lvars, cvars, svars, xvars>>

\* every thread that can take a step takes one in the end (the scheduler of
\* the threads is fair, a task and a store call return)
StopSpec ==
    /\ StopSpecInit
    /\ [][StopNext]_vars
    /\ \A q \in QIds : WF_vars(WorkerStep(q))
    /\ WF_vars(SweepStep)
    /\ WF_vars(MaintStep)

\* get_service_chain over every configuration, load failure and preference
ChainSpecInit ==
    /\ now = 0
    /\ shutdown_event = FALSE
    /\ QueueInit
    /\ LockInit
    /\ CacheInit
    /\ SeqInit
    /\ FlushInit
    /\ PolicyIdle
    /\ FlowIdle
    /\ ChainInit
    /\ ReplyIdle
    /\ OtherIdle

ChainNext ==
    \/ ChainRun /\ UNCHANGED <<now, shutdown_event, qvars, lvars, cvars, svars, fl, yvars,
                             fvars, rvars, ovars>>

ChainSpec == ChainSpecInit /\ [][ChainNext]_vars

\* one core_reply_cycle of a private chat, with handle_message threads that
\* take other inbound turns of the chat
ReplySpecInit ==
    /\ now = 0
    /\ shutdown_event = FALSE
    /\ QueueInit
    /\ LockInit
    /\ ReplyInit
    /\ SeqInit
    /\ FlushInit
    /\ PolicyIdle
    /\ FlowIdle
    /\ OtherIdle

ReplyFrame == UNCHANGED <<now, shutdown_event, qvars, lvars, svars, fl, yvars, fvars,
                          th, written, ovars>>

ReplyNext ==
    \/ \E ok \in BOOLEAN : ReplyStart(ok) /\ ReplyFrame
    \/ ReplyAcquire /\ ReplyFrame
    \/ ReplySnapshot /\ ReplyFrame
    \/ ReplyChain /\ ReplyFrame
    \/ ReplyInvoke /\ ReplyFrame
    \/ \E res \in UNION {GetChatResponses(p_name) : p_name \in ProviderNames} :
          ReplyResult(res) /\ ReplyFrame
    \/ ReplyAfter /\ ReplyFrame
    \/ \E ok \in BOOLEAN : ReplyDeliver(ok) /\ ReplyFrame
    \/ \E ok \in BOOLEAN : ReplySplice(ok) /\ ReplyFrame
    \/ \E ok \in BOOLEAN : ReplyUsage(ok) /\ ReplyFrame
    \/ \E ok \in BOOLEAN : ReplyExcept(ok) /\ ReplyFrame
    \/ \E ok \in BOOLEAN : ReplyOther(ok) /\ ReplyFrame

ReplySpec == ReplySpecInit /\ [][ReplyNext]_vars

\* ======================================================================
\* Properties of ChatQueueManager
\* ======================================================================
Done(k) == outcome[k] \in {"ok", "raised"}
PosIn(s, k) == CHOOSE i \in 1..Len(s) : s[i] = k
WorkerLive(q) == wpc[q] \notin {"unborn", "exited"}

\* C1: for every chat id, no two tasks enqueued for it are inside func(*args)
\* at the same time, whatever the interleaving of enqueue calls, idle-timeout
\* exits and respawns
C1_NoConcurrentTasksPerChat ==
    \A k1, k2 \in TaskIds :
        (k1 # k2 /\ outcome[k1] = "running" /\ outcome[k2] = "running")
            => taskChat[k1] # taskChat[k2]

\* a respawned worker runs a task of a chat whose first worker ran a task and
\* then left by the idle timeout
C1_Witness ==
    \E q1, q2 \in QIds :
        /\ q1 # q2 /\ qchat[q1] = qchat[q2]
        /\ ~shutdown_event
        /\ wpc[q1] = "exited" /\ Done(q1)
        /\ wpc[q2] = "run"

\* C2: the tasks of one chat id enter func(*args) in the order in which
\* enqueue put them into the queue, and a task has ended before the next task
\* of that chat is entered
C2_FifoPerChat ==
    \A i, j \in 1..Len(execLog) :
        (i < j /\ taskChat[execLog[i]] = taskChat[execLog[j]])
            => /\ PosIn(putLog, execLog[i]) < PosIn(putLog, execLog[j])
               /\ Done(execLog[i])

\* two callers raced: the call that took the manager lock second put first,
\* and both tasks of the chat have been entered
C2_Witness ==
    /\ Len(execLog) = 2
    /\ taskChat[execLog[1]] = taskChat[execLog[2]]
    /\ execLog[1] > execLog[2]

\* C3 (as claimed): while no shutdown is signalled, a task that enqueue has put
\* is in a queue that a live worker consumes, also when the enqueue
\* interleaved with the idle-timeout exit of the chat's worker
C3_PutTaskHasLiveWorker ==
    ~shutdown_event => \A q \in QIds : qitems[q] # <<>> => WorkerLive(q)

\* C4: when func(*args) raises, the worker of that chat goes on with its loop
\* and the tasks waiting in its queue stay queued
C4_TaskFailureIsCaught ==
    [][\A q \in QIds :
          (wpc[q] = "run" /\ outcome'[wtask[q]] = "raised")
              => (wpc'[q] = "loop" /\ qitems'[q] = qitems[q])]_vars

\* a task raised and the task enqueued behind it for the same chat ran to its
\* end on the same worker
C4_Witness ==
    /\ Len(execLog) = 2
    /\ taskChat[execLog[1]] = taskChat[execLog[2]]
    /\ outcome[execLog[1]] = "raised"
    /\ outcome[execLog[2]] = "ok"
    /\ \E q \in QIds : WorkerLive(q) /\ qchat[q] = taskChat[execLog[1]]

\* ======================================================================
\* Properties of ChatLockManager
\* ======================================================================
\* C5 (as claimed): no two threads are inside a transcript read-modify-write
\* section of the same chat id at the same time, also when the registry sweep
\* runs between get_lock and the entry into the section
C5_MutualExclusionPerChat ==
    \A h1, h2 \in Handlers :
        (h1 # h2 /\ hpc[h1] = "crit" /\ hpc[h2] = "crit") => hchat[h1] # hchat[h2]

\* the stored transcript of rows, as (uuid, role, content) in seq order
Ids(rows) ==
    LET sorted == StableSort(rows, [i \in 1..Len(rows) |-> rows[i].seq])
    IN [i \in 1..Len(sorted) |-> <<sorted[i].msg_uuid, sorted[i].role, sorted[i].content>>]
TurnIds(data) == [i \in 1..Len(data) |-> <<data[i].uuid, data[i].role, data[i].content>>]

\* C6 (as claimed): the transcript a get_context call has returned for a chat
\* is the one the last update_context call that returned for that chat set.
C6_GetReturnsLastUpdate ==
    \A t \in Clients : th[t].pc = "have" => th[t].ctx = written[th[t].chat]

\* C7 (as claimed): when the store write of an evicted dirty entry has
\* failed, the except branch of _flush_evictions leaves the chat id a key of
\* the cache, with the transcript, the dirty_count and the cooldown of the
\* evicted entry.
C7_FailedFlushPutsEntryBack ==
    [][\A t \in Threads :
          th[t].pc = "readmit" /\ th'[t] # th[t] =>
             LET p == Head(th[t].pending)
             IN /\ HasKey(cache_keys', p.cid)
                /\ cache'[p.cid].data = p.entry.data
                /\ cache'[p.cid].dirty_count = p.entry.dirty_count
                /\ cache'[p.cid].summary_cooldown = p.entry.summary_cooldown]_vars

\* C10: update_context adds one to dirty_count and goes on into _flush_to_db
\* exactly when force_save is set or the new dirty_count is at least 3;
\* _flush_to_db writes the entry to the store when it is still a key; and the
\* dirty_count of an entry goes from positive to 0 only in the step that
\* follows a committed save of that chat.
C10_UpdateCountsAndWritesBack ==
    [][/\ \A t \in Clients :
            nextUuid' # nextUuid =>
               LET c == th[t].chat
                   old == IF HasKey(cache_keys, c) THEN cache[c].dirty_count ELSE 0
               IN /\ HasKey(cache_keys', c)
                  /\ cache'[c].dirty_count = old + 1
                  /\ (th'[t].ret = "snap") <=> (th'[t].force \/ old + 1 >= 3)
       /\ \A t \in Clients :
            /\ th[t].pc = "snap" /\ HasKey(cache_keys, th[t].chat) /\ th'[t] # th[t]
                  => th'[t].pc = "save"
            /\ th'[t].pc = "save" /\ th[t].pc # "save" => th[t].ret = "snap"
       /\ \A c \in CacheChats :
            /\ HasKey(cache_keys, c) /\ HasKey(cache_keys', c)
            /\ cache[c].dirty_count > 0 /\ cache'[c].dirty_count = 0
            => \E t \in Clients : th[t].pc = "commit" /\ th[t].chat = c /\ th[t].saved]_vars

\* a third update without force_save has written the chat back and its
\* dirty_count is 0 again
C10_Witness ==
    \E t \in Clients :
        /\ th[t].pc = "ret" /\ ~th[t].force /\ th[t].ret = "snap" /\ th[t].saved
        /\ HasKey(cache_keys, th[t].chat)
        /\ cache[th[t].chat].dirty_count = 0
        /\ Len(store[th[t].chat]) = 3

\* C8: while every update_context of a chat was one append followed by
\* update_context(force_save = True) whose store write committed, the rows of
\* the chat are the appended turns in append order (uuid, role, content), and
\* load_chat_history returns that sequence.
C8_ForcedAppendsRoundTrip ==
    \A c \in CacheChats :
        forced[c] =>
            /\ Ids(store[c]) = TurnIds(appended[c])
            /\ TurnIds(EnsureUuid(LoadChatHistory(store[c]))) = TurnIds(appended[c])

\* MaxTurns forced appends to one chat, a reply among them, the chat evicted
\* so that the next get_context loads it from the store
C8_Witness ==
    \E c \in CacheChats :
        /\ forced[c] /\ Len(appended[c]) = MaxTurns
        /\ \E i \in 1..MaxTurns : appended[c][i].reply_to # NoReply
        /\ ~HasKey(cache_keys, c)

\* C9: get_context right after update_context returns the transcript that
\* was set; an append to the list a get_context returned, or to the list
\* passed to update_context, leaves the cache as it is.
C9_CopyIsolation ==
    [][/\ (sq.op = "update" /\ sq'.op = "get" /\ th'["a"].chat = th["a"].chat)
            => th'["a"].ctx = sq.set
       /\ nextUuid' # nextUuid => cache' = cache]_vars

\* the caller has appended to the list it passed to update_context and
\* get_context then returned the transcript that was set
C9_Witness ==
    /\ sq.op = "get"
    /\ th["a"].ctx # <<>>
    /\ HasKey(cache_keys, th["a"].chat)
    /\ cache[th["a"].chat].data = th["a"].ctx
    /\ cache[th["a"].chat].dirty_count > 0
    /\ nextUuid > th["a"].ctx[Len(th["a"].ctx)].uuid + 1

\* the chat ids of a list of evicted snapshots

\* C11: a save_chat_history that raises inside _flush_to_db (called by
\* update_context or by flush_all) changes neither the cache nor the store,
\* and the call goes on to its normal return with the transcript and the
\* dirty_count of every entry as they were; a dirty entry is then in the list
\* of the next flush_all, and in the list of snapshots to save of the
\* eviction that removes it.
C11_WriteFailureKeepsEntryDirty ==
    [][/\ \A t \in Clients \cup {Main} :
            /\ (th[t].pc = "save" /\ th'[t].pc # "save" /\ ~th'[t].saved)
                  => cache' = cache /\ cache_keys' = cache_keys /\ store' = store
            /\ (th[t].pc = "commit" /\ ~th[t].saved /\ th'[t] # th[t])
                  => cache' = cache /\ cache_keys' = cache_keys /\ th'[t].pc = "ret"
       /\ (th[Main].pc = "cids" /\ th'[Main].pc # "cids")
             => \A c \in CacheChats :
                   HasKey(cache_keys, c) /\ cache[c].dirty_count > 0
                      => c = th'[Main].chat
                         \/ \E i \in 1..Len(th'[Main].cids) : th'[Main].cids[i] = c
       /\ \A c \in CacheChats :
             HasKey(cache_keys, c) /\ ~HasKey(cache_keys', c) /\ cache[c].dirty_count > 0
                => \E t \in Threads :
                      /\ th'[t].pc = "evict"
                      /\ \E i \in 1..Len(th'[t].pending) :
                            /\ th'[t].pending[i].cid = c
                            /\ th'[t].pending[i].entry.data = cache[c].data]_vars

\* a chat whose save inside update_context raised was written by the
\* flush_all that followed and is clean
C11_Witness ==
    /\ th[Main].pc = "flushed"
    /\ \E c \in fl.failed \cap fl.attempted :
          /\ HasKey(cache_keys, c)
          /\ cache[c].data # <<>>
          /\ cache[c].dirty_count = 0
          /\ Ids(store[c]) = TurnIds(cache[c].data)

\* C12 (as claimed): when flush_all has returned and no other thread took a step since
\* it began, it called save_chat_history for exactly the chat ids that were
\* dirty keys when it began; when none of these saves raised, every entry has
\* dirty_count 0 and the rows of its chat are its transcript.
C12_FlushAllWritesDirtyEntries ==
    (th[Main].pc = "flushed" /\ fl.quiet) =>
        /\ fl.attempted = fl.dirty_at
        /\ fl.allok =>
              \A c \in CacheChats :
                 HasKey(cache_keys, c) =>
                    /\ cache[c].dirty_count = 0
                    /\ Ids(store[c]) = TurnIds(cache[c].data)

\* C13 (as claimed): when the process has exited after a flush_all none of
\* whose saves raised, the store holds, for every chat, the transcript the
\* last update_context call set.
C13_ShutdownDurability ==
    (th[Main].pc = "exited" /\ fl.allok) =>
        \A c \in CacheChats :
            written[c] # <<>> => TurnIds(LoadChatHistory(store[c])) = TurnIds(written[c])


\* ---------------------------------------------------------------- policy --
\* the three decisions, read off the returned pair
IsAppend == ~pol.task_msgs.some /\ ~pol.forced_context.some
\* Truncate to exactly the last n turns of the transcript
IsTruncate(n) ==
    /\ ~pol.task_msgs.some
    /\ pol.forced_context.some
    /\ Len(pol.forced_context.val) = n
    /\ \A i \in 1..n : pol.forced_context.val[i] = pol.context[Len(pol.context) - n + i]
\* CondenseCandidate over the oldest n turns of the transcript
IsCandidate(n) ==
    /\ pol.task_msgs.some
    /\ ~pol.forced_context.some
    /\ Len(pol.task_msgs.val) = n
    /\ n <= Len(pol.context)
    /\ \A i \in 1..n : pol.task_msgs.val[i] = pol.context[i]
Evaluated == pol.pc = "done"
CooldownAfter == GetCooldown(pol.keys, pol.ent, PolicyChat)

\* C14: a transcript longer than the safety ceiling 40 is truncated to
\* exactly its last 35 turns and gives no condensation candidate, whatever the
\* chat type and the cooldown
C14_SafetyCeilingTruncates ==
    (Evaluated /\ Len(pol.context) > 40) => IsTruncate(35)

\* a group chat that is cooling down, with 41 turns, was truncated
C14_Witness ==
    /\ Evaluated
    /\ Len(pol.context) = 41
    /\ pol.chat_type = "group"
    /\ pol.cooldown > 0
    /\ IsTruncate(35)

\* C15 (as claimed): a private chat with cooldown 0 and at most 40 turns
\* appends exactly when it has fewer than 35 turns, and from 35 to 40 turns
\* gets the candidate of its oldest (length - 15) turns
C15_CondenseFromTrigger ==
    (Evaluated /\ pol.chat_type = "private" /\ pol.cooldown = 0 /\ Len(pol.context) <= 40)
        => /\ IsAppend <=> Len(pol.context) < 35
           /\ Len(pol.context) \in 35..40 => IsCandidate(Len(pol.context) - 15)

\* C15 (amended): a private chat with cooldown 0 and at most 40 turns appends
\* exactly when it has at most 35 turns, and from 36 to 40 turns gets the
\* candidate of its oldest (length - 15) turns, a prefix of the transcript
C15_CondenseAboveTrigger ==
    (Evaluated /\ pol.chat_type = "private" /\ pol.cooldown = 0 /\ Len(pol.context) <= 40)
        => /\ IsAppend <=> Len(pol.context) <= 35
           /\ Len(pol.context) \in 36..40 => IsCandidate(Len(pol.context) - 15)
           /\ pol.task_msgs.some =>
                 pol.task_msgs.val = SubSeq(pol.context, 1, Len(pol.task_msgs.val))

\* a private chat with 36 turns got its first 21 turns as the candidate
C15_Witness ==
    /\ Evaluated
    /\ pol.chat_type = "private"
    /\ pol.cooldown = 0
    /\ Len(pol.context) = 36
    /\ IsCandidate(21)

\* C16: with a cooldown above 0 the evaluation lowers the cooldown by exactly
\* 1 and gives no candidate: Truncate to the last 35 above 40 turns, Append
\* otherwise; with cooldown 0 the cooldown stays 0
C16_CooldownCountsDown ==
    Evaluated =>
        /\ pol.cooldown > 0 =>
              /\ CooldownAfter = pol.cooldown - 1
              /\ ~pol.task_msgs.some
              /\ IF Len(pol.context) > 40 THEN IsTruncate(35) ELSE IsAppend
        /\ pol.cooldown = 0 => CooldownAfter = 0

\* a private chat of 36 turns with cooldown 2 appended, and its cooldown is 1
C16_Witness ==
    /\ Evaluated
    /\ pol.chat_type = "private"
    /\ Len(pol.context) = 36
    /\ pol.cooldown = 2
    /\ CooldownAfter = 1
    /\ IsAppend

\* C17: a group chat with cooldown 0 and at most 40 turns is truncated to
\* its last 20 turns above 20 turns and appends otherwise; a group chat
\* gets no candidate at any length
C17_GroupTruncatesToCap ==
    (Evaluated /\ pol.chat_type = "group") =>
        /\ ~pol.task_msgs.some
        /\ (pol.cooldown = 0 /\ Len(pol.context) <= 40) =>
              IF Len(pol.context) > 20 THEN IsTruncate(20) ELSE IsAppend

\* a group chat of 21 turns was truncated to its last 20
C17_Witness ==
    /\ Evaluated
    /\ pol.chat_type = "group"
    /\ pol.cooldown = 0
    /\ Len(pol.context) = 21
    /\ IsTruncate(20)


\* ------------------------------------------------ condensation of a chat --
\* what get_context returns for the chat, and the dirty_count of its entry
Live ==
    IF HasKey(cache_keys, FlowChat) THEN cache[FlowChat].data
    ELSE EnsureUuid(LoadChatHistory(store[FlowChat]))
LiveDirty == IF HasKey(cache_keys, FlowChat) THEN cache[FlowChat].dirty_count ELSE 0
\* the step in which handler h calls apply_summary_success
ApplyStep(h) ==
    /\ hm.pc[h] = "summary"
    /\ hm'.pc[h] = "idle"
    /\ fh'.last.op = "apply"
\* the live transcript is empty or shorter than the candidate of h, or its
\* turn at the first position or at the position of the candidate's last turn
\* has another id
Changed(h) ==
    LET candidate == hm.msgs_to_summarize[h].val
    IN \/ Live = <<>>
       \/ Len(Live) < Len(candidate)
       \/ Live[1].uuid # candidate[1].uuid
       \/ Live[Len(candidate)].uuid # candidate[Len(candidate)].uuid

\* C18: when the live transcript has changed in that way since the
\* candidate was computed, apply_summary_success leaves the transcript, its
\* dirty_count and the store as they are
C18_RaceGuardDiscards ==
    [][\A h \in FlowHandlers :
          (ApplyStep(h) /\ Changed(h)) =>
              /\ cache'[FlowChat].data = Live
              /\ cache'[FlowChat].dirty_count = LiveDirty
              /\ store' = store]_vars

\* a summary came back after the transcript was truncated: the transcript is
\* long enough but no longer starts with the candidate's first turn
C18_Witness ==
    /\ fh.last.op = "apply"
    /\ fh.last.why = "ids"
    /\ Len(cache[FlowChat].data) >= SummaryTriggerPrivate
    /\ cache[FlowChat].data[1].role # "system"

\* C19: when the identity check passes, the new transcript is one new system
\* turn followed by the live turns after the candidate prefix, in order,
\* those appended since the candidate was computed included; it is written
\* to the store (force_save), and stays dirty when that write fails
C19_CondensationReplacesPrefix ==
    [][\A h \in FlowHandlers :
          (ApplyStep(h) /\ ~Changed(h)) =>
              LET n == Len(hm.msgs_to_summarize[h].val)
                  new == cache'[FlowChat].data
              IN /\ Len(new) = Len(Live) - n + 1
                 /\ new[1].role = "system"
                 /\ \A i \in 1..Len(Live) : Live[i].uuid # new[1].uuid
                 /\ \A i \in 1..(Len(Live) - n) : new[i + 1] = Live[n + i]
                 /\ fh'.last.ok =>
                       /\ Ids(store'[FlowChat]) = TurnIds(new)
                       /\ cache'[FlowChat].dirty_count = 0
                 /\ ~fh'.last.ok =>
                       /\ store' = store
                       /\ cache'[FlowChat].dirty_count > 0]_vars

\* a summary was applied and stored, and the transcript still has a user turn
\* that came in after the candidate was computed
C19_Witness ==
    /\ fh.last.op = "apply"
    /\ fh.last.why = "applied"
    /\ fh.last.ok
    /\ cache[FlowChat].data[1].role = "system"
    /\ Ids(store[FlowChat]) = TurnIds(cache[FlowChat].data)
    /\ \E i \in 2..Len(cache[FlowChat].data) :
          /\ cache[FlowChat].data[i].role = "user"
          /\ cache[FlowChat].data[i].uuid > fh.last.u

\* C20 (as claimed): when get_summary gives nothing the cooldown of the chat
\* becomes 5 and the handler goes on without another attempt; and a
\* condensation attempt starts only at the 6th or a later inbound turn after
\* the last attempt that gave nothing
C20_BackoffFiveTurns ==
    [][\A h \in FlowHandlers :
          /\ (hm.pc[h] = "summary" /\ hm'.pc[h] = "idle" /\ fh'.last.op = "nothing") =>
                GetCooldown(cache_keys, cache, FlowChat)' = SummaryCooldown
          /\ (hm.pc[h] = "idle" /\ hm'.pc[h] = "summary") =>
                (fh.since < 0 \/ fh.since >= SummaryCooldown)]_vars


\* ------------------------------------------------------ ChatLockManager --
\* the step in which get_lock(c) returns to handler h
GetLockStep(h, c) == hpc[h] = "idle" /\ hpc'[h] = "have" /\ hchat'[h] = c
\* the RLock objects handed out so far
Handed == 1..(nextLock - 1)

\* C21: get_lock of a registered chat id returns the registered object and
\* leaves the registry as it is; two chat ids never share an object; the sweep
\* notes the key of a lock that is past the TTL and not held when it tries it,
\* and removes the noted keys; get_lock of a chat id that is not registered
\* returns an object that was never handed out before
C21_SameLockUntilSwept ==
    [][/\ \A h \in Handlers, c \in Chats :
             GetLockStep(h, c) =>
                 /\ locks[c] # NoLock => (hlock'[h] = locks[c] /\ locks' = locks)
                 /\ locks[c] = NoLock => (hlock'[h] \notin Handed /\ locks'[c] = hlock'[h])
                 /\ \A d \in Chats \ {c} : locks'[d] # hlock'[h]
       /\ \A c \in Chats :
             (spc = "scan" /\ c \in todo /\ c \notin todo'
                 /\ current_time - lock_time[c] > 600 /\ lowner[locks[c]] = "free")
             => c \in keys_to_remove'
       /\ (spc \in {"scan", "remove"} /\ spc' = "wait") =>
             \A c \in keys_to_remove : locks'[c] = NoLock]_vars

\* a handler still has the first lock object of a chat id whose lock was
\* swept, and the registry holds a second object for that chat id
C21_Witness ==
    \E h \in Handlers :
        /\ hlock[h] # NoLock
        /\ locks[hchat[h]] # NoLock
        /\ locks[hchat[h]] # hlock[h]

\* C22 (as claimed): the sweep removes no lock that a thread holds and no lock
\* whose last get_lock is within the TTL; a held lock past the TTL stays
\* registered
C22_SweepRemovesOnlyFreeExpired ==
    [][\A c \in Chats :
          (locks[c] # NoLock /\ locks'[c] = NoLock) =>
              /\ lowner[locks[c]] = "free"
              /\ current_time - lock_time[c] > 600]_vars


\* ------------------------------------------------------ ProviderManager --
\* C23: the chain starts with the user's preferred provider (the stored
\* preference when it names a loaded provider, in any case; the first loaded
\* provider otherwise), goes on with every other loaded provider in
\* configuration order, and has every loaded provider exactly once
C23_ChainPreferredFirstEachOnce ==
    pv.pc = "done" =>
        LET others == SelectSeq(pv.provider_list, LAMBDA name : name # pv.chain[1])
        IN /\ Len(pv.chain) = Len(pv.provider_list)
           /\ pv.chain[1] =
                 IF \E i \in 1..Len(pv.provider_list) :
                        Lower(pv.provider_list[i]) = Lower(pv.pref)
                 THEN pv.pref ELSE pv.provider_list[1]
           /\ \A i \in 2..Len(pv.chain) : pv.chain[i] = others[i - 1]
           /\ \A i, j \in 1..Len(pv.chain) : i # j => pv.chain[i] # pv.chain[j]
           /\ \A i \in 1..Len(pv.provider_list) : InList(pv.chain, pv.provider_list[i])

\* three providers are loaded and the user prefers the last one
C23_Witness ==
    /\ pv.pc = "done"
    /\ Len(pv.provider_list) = 3
    /\ pv.chain[1] = pv.provider_list[3]
    /\ pv.chain[2] = pv.provider_list[1]
    /\ pv.chain[3] = pv.provider_list[2]

\* ------------------------------------------------------ core_reply_cycle --
\* the k-th backend call of the task returned text that is not empty
Succeeded(k) == ~rp.results[k].raised /\ rp.results[k].val # ""
\* every backend of the chain was called and none returned text
Exhausted ==
    /\ pv.pc = "done"
    /\ Len(rp.results) = Len(pv.chain)
    /\ \A k \in 1..Len(rp.results) : ~Succeeded(k)
\* the turns of the transcript that reply to the user turn of the task
RepliesIn(context) ==
    {i \in 1..Len(context) : context[i].reply_to = rp.user_msg_uuid}

\* C24: the backends are called in chain order; the loop goes on while the
\* calls raise or return empty text and ends with the first call that
\* returns text that is not empty: no later backend is called, that text is
\* the reply, and that backend's name is the model of the assistant turn
C24_FirstNonEmptyTextWins ==
    /\ Len(rp.invoked) <= Len(pv.chain)
    /\ \A k \in 1..Len(rp.invoked) : rp.invoked[k] = pv.chain[k]
    /\ rp.pc \in {"after", "deliver", "lock2", "splice", "usage"} =>
          \/ Len(rp.invoked) = Len(pv.chain)
          \/ Succeeded(Len(rp.results))
    /\ \A k \in 1..Len(rp.results) :
          Succeeded(k) =>
             /\ k = Len(rp.invoked)
             /\ \A j \in 1..(k - 1) : ~Succeeded(j)
             /\ rp.ai_reply = Some(ReplyText(pv.chain[k]))
             /\ rp.success_provider = pv.chain[k]
             /\ rp.ai_msg_obj.some =>
                   /\ rp.ai_msg_obj.val.content = ReplyText(pv.chain[k])
                   /\ rp.ai_msg_obj.val.model = pv.chain[k]
             /\ \A i \in RepliesIn(Live) :
                   /\ Live[i].content = ReplyText(pv.chain[k])
                   /\ Live[i].model = pv.chain[k]

\* three backends, the first raises, the second returns empty text, the
\* third returns text: its turn is in the transcript
C24_Witness ==
    /\ rp.pc = "done"
    /\ Len(pv.chain) = 3
    /\ Len(rp.results) = 3
    /\ rp.results[1].raised
    /\ ~rp.results[2].raised
    /\ Succeeded(3)
    /\ \E i \in RepliesIn(Live) : Live[i].model = pv.chain[3]

\* C25: when no backend of the chain has produced a reply, the task raises
\* one error whose message has one summary, the name and the error text,
\* for each backend that was called, and each backend was called once
C25_AggregateNamesEveryBackend ==
    (rp.pc \in {"except", "done"} /\ Exhausted) =>
        /\ rp.error.some
        /\ Len(rp.error.val.joined) = Len(rp.invoked)
        /\ \A k \in 1..Len(rp.invoked) :
              /\ rp.error.val.joined[k][1] = rp.invoked[k]
              /\ rp.error.val.joined[k][3] = Cut(rp.results[k].err_msg, ErrorCut)
        /\ \A j, k \in 1..Len(rp.invoked) : j # k => rp.invoked[j] # rp.invoked[k]

\* C26: a reply task whose backends are exhausted leaves the transcript as
\* the other threads left it, with no turn that replies to its user turn and
\* with the user turn in it, and it has called safe_reply_to once, with the
\* failure text
C26_FailedTaskLeavesNoTrace ==
    (rp.pc \in {"after", "except", "done"} /\ Exhausted) =>
        /\ Live = rp.expect
        /\ RepliesIn(Live) = {}
        /\ \E i \in 1..Len(Live) :
              Live[i].uuid = rp.user_msg_uuid /\ Live[i].role = "user"
        /\ ~rp.ai_msg_obj.some
        /\ rp.reply_sends = 0
        /\ rp.failure_sends = IF rp.pc = "done" THEN 1 ELSE 0

\* every backend failed while another thread took an inbound turn, and the
\* failure text was sent
C26_Witness ==
    /\ rp.pc = "done"
    /\ Exhausted
    /\ Len(pv.chain) > 1
    /\ rp.others > 0
    /\ rp.failure_sends = 1
    /\ rp.failure_delivered

\* C28: the reply task holds the chat lock only in the section that takes
\* the snapshot and in the section that splices the assistant turn in: not
\* while a backend call is in flight, between the calls or at the delivery
C28_NoLockDuringBackendCall ==
    /\ rp.chat_lock = "reply" => rp.pc \in {"snapshot", "splice"}
    /\ rp.pc \in {"chain", "loop", "call", "after", "deliver", "except"} =>
          rp.chat_lock = "free"

\* a backend call is in flight and another thread has taken the chat lock
\* and appended a turn after the snapshot
C28_Witness ==
    /\ rp.pc = "call"
    /\ rp.chat_lock = "free"
    /\ Len(rp.expect) > Len(rp.payload) - 1


\* --------------------------------------------------------- clean entries --
\* a thread is inside _flush_to_db of chat c, or has a snapshot of c in the
\* pending_evictions of its _flush_evictions
WriteInProgress(c) ==
    \E t \in Threads \cup {Main} :
       \/ th[t].pc \in {"snap", "save", "commit"} /\ th[t].chat = c
       \/ /\ th[t].pc \in {"evict", "readmit"}
          /\ \E i \in 1..Len(th[t].pending) : th[t].pending[i].cid = c
\* the uuids, roles and contents of a transcript, in order
Persistable(data) ==
    [i \in 1..Len(data) |-> Turn(data[i].uuid, data[i].role, data[i].content, NoReply)]

\* C27: a cached entry with dirty_count 0 whose chat no thread is writing to
\* the store has the transcript the store holds for the chat
C27_CleanMeansPersisted ==
    \A c \in CacheChats :
        (HasKey(cache_keys, c) /\ cache[c].dirty_count = 0 /\ ~WriteInProgress(c)) =>
            LoadChatHistory(store[c]) = Persistable(cache[c].data)


\* ------------------------------------------- the lock around get_summary --
\* C29, as claimed: while get_summary runs for handler h, h holds the chat
\* lock it took to append the inbound turn
C29_CondensationUnderLock ==
    \A h \in FlowHandlers : hm.pc[h] = "summary" => hm.holder = h

\* C29, amended: while get_summary runs for handler h nobody holds the chat
\* lock on h's behalf (the section that took the inbound turn has ended and
\* the section that applies the summary has not begun), so other threads
\* enter their sections meanwhile
C29_LockReleasedWhileSummarizing ==
    \A h \in FlowHandlers : hm.pc[h] = "summary" => hm.holder = NoHolder

\* get_summary runs for a handler and /clear has emptied the transcript
\* under the chat lock meanwhile
C29_Witness ==
    \E h \in FlowHandlers :
        /\ hm.pc[h] = "summary"
        /\ fh.last.op = "clear"
        /\ Live = <<>>


\* ------------------------------------------------- the order of replies --
\* C30: the reply tasks of a chat are enqueued, and run, in the order in
\* which their user turns were appended to the transcript (the uuids of the
\* model grow in that order)
C30_ReplyOrderIsAppendOrder ==
    /\ \A i, j \in 1..Len(hm.enqueued) : i < j => hm.enqueued[i] < hm.enqueued[j]
    /\ \A i, j \in 1..Len(hm.executed) : i < j => hm.executed[i] < hm.executed[j]


\* ------------------------------------------------ the capacity ceiling --
KeySet(keys) == {keys[i] : i \in 1..Len(keys)}
\* the step in which the entry of the new chat is created
Created == ~HasKey(cache_keys, LimitNew) /\ HasKey(cache_keys', LimitNew)

\* C31: when the creation of an entry takes the cache over its ceiling,
\* floor(0.8 * ceiling) entries remain, the new entry among them; no removed
\* entry was accessed after a retained one; the step under the cache's lock
\* writes nothing to the store and leaves the removed dirty entries with the
\* thread, which writes them afterwards. At or under the ceiling nothing
\* is removed
C31_CapacityEvictionIsLru ==
    [][Created =>
         LET kept == KeySet(cache_keys')
             removed == KeySet(cache_keys) \ kept
         IN /\ LimitNew \in kept
            /\ store' = store
            /\ IF Len(cache_keys) + 1 > LimitCeiling
               THEN Cardinality(kept) = (LimitCeiling * 8) \div 10
               ELSE removed = {}
            /\ \A r \in removed, k \in kept :
                  cache[r].last_access <= cache'[k].last_access
            /\ \A r \in removed :
                  cache[r].dirty_count > 0 =>
                     \E t \in Clients :
                        /\ th'[t].pc = "evict"
                        /\ \E i \in 1..Len(th'[t].pending) :
                              th'[t].pending[i] = [cid |-> r, entry |-> cache[r]]
    ]_vars

\* the cache was at its ceiling; the first chat, accessed last, is retained
\* with the new one, and the dirty turn of the removed second chat has been
\* written to the store
C31_Witness ==
    /\ cache_keys = <<"c1", LimitNew>>
    /\ \A t \in Clients : th[t].pc \in {"have", "ret"}
    /\ Len(store["c2"]) = 1
    /\ store["c2"][1].content = "q"


\* ------------------------------------------ the length of a transcript --
\* the step is the section of handle_message under chat_lock
InboundDone == fh'.inbound = fh.inbound + 1
\* the transcript of the chat in the cache
Cached == cache[FlowChat].data

\* C32: after the section of handle_message that takes the inbound turn
\* (append, check_and_prepare_task, update_context) the transcript of the
\* chat has at most MAX_SAFETY_LIMIT turns, for a private chat and a group
\* chat, cooling down or not
C32_BoundedTranscript ==
    [][InboundDone => /\ HasKey(cache_keys', FlowChat)
                      /\ Len(cache'[FlowChat].data) <= MaxSafetyLimit]_vars

\* a private chat that is cooling down after a failed condensation took an
\* inbound turn over the safety ceiling and was cut to its last 35 turns
C32_Witness ==
    /\ fh.chat_type = "private"
    /\ fh.last.op = "inbound"
    /\ fh.since >= 0
    /\ HasKey(cache_keys, FlowChat)
    /\ cache[FlowChat].summary_cooldown > 0
    /\ Len(Cached) = SummaryTriggerPrivate
    /\ Cached[1].role # "system"
    /\ Cached[1].uuid > 1

RepliesTo(context, u) == {i \in 1..Len(context) : context[i].reply_to = u}
\* the step is a call of _insert_ai_reply for a user turn that has its reply
\* in the cached transcript
SplicedAgain ==
    /\ fh'.last.op = "again"
    /\ fh' # fh
    /\ HasKey(cache_keys, FlowChat)
    /\ RepliesTo(Cached, fh'.last.u) # {}

\* C34: _insert_ai_reply called for a user turn whose reply is in the
\* transcript changes neither the transcript nor dirty_count (nor the store),
\* and no cached transcript has two turns with the same reply_to
C34_SpliceIsIdempotent ==
    [][/\ SplicedAgain => /\ cache'[FlowChat].data = cache[FlowChat].data
                          /\ cache'[FlowChat].dirty_count = cache[FlowChat].dirty_count
                          /\ cache_keys' = cache_keys
                          /\ store' = store
       /\ \A i, j \in 1..Len(cache'[FlowChat].data) :
             /\ cache'[FlowChat].data[i].reply_to # NoReply
             /\ cache'[FlowChat].data[i].reply_to = cache'[FlowChat].data[j].reply_to
             => i = j
      ]_vars

\* the second call for a user turn has returned and the transcript has the
\* one reply to it, while the entry is dirty
C34_Witness ==
    /\ fh.last.op = "again"
    /\ HasKey(cache_keys, FlowChat)
    /\ Cardinality(RepliesTo(Cached, fh.last.u)) = 1
    /\ cache[FlowChat].dirty_count > 0


\* ------------------------------------------------- the place of a reply --
\* every turn with a reply_to that names a turn of the transcript is right
\* after that turn
Adjacent(context) ==
    \A i, j \in 1..Len(context) :
        /\ context[i].reply_to # NoReply
        /\ context[j].uuid = context[i].reply_to
        => i = j + 1
\* C37: in every cached transcript a reply whose user turn is present is
\* right after it; a reply whose user turn is not in the transcript that
\* get_context returns to _insert_ai_reply is appended at its end
C37_ReplyAdjacency ==
    [][/\ \A context \in {cache'[FlowChat].data} : Adjacent(context)
       /\ \A u \in hm.replies \ hm'.replies :
             fh'.last.op = "reply" =>
                \A context \in {GetContext(World, FlowChat, now).result} :
                   (\A i \in 1..Len(context) : context[i].uuid # u) =>
                      cache'[FlowChat].data =
                         Append(context, Turn(nextUuid, "assistant", "p", u))
      ]_vars

\* the reply to a user turn was spliced in after the next inbound turn had
\* been appended, and is between the two
C37_Witness ==
    /\ HasKey(cache_keys, FlowChat)
    /\ \E i \in 2..(Len(Cached) - 1) :
          /\ Cached[i].role = "assistant"
          /\ Cached[i].reply_to = Cached[i - 1].uuid
          /\ Cached[i + 1].role = "user"
          /\ Cached[i + 1].uuid < Cached[i].uuid


\* ------------------------------------------------------- the shutdown --
\* the thread of every queue, _auto_cleanup and _maintenance_worker have
\* returned
Stopped ==
    /\ \A q \in QIds : wpc[q] \in {"unborn", "exited"}
    /\ spc = "exited"
    /\ th[Maint].pc = "exited"

\* C35: once the shutdown event is set the workers, _auto_cleanup and
\* _maintenance_worker return in the end, and a worker whose loop condition
\* finds the event set returns without taking a task
C35_LoopsStopOnShutdown ==
    /\ shutdown_event ~> Stopped
    /\ [][\A q \in QIds :
             /\ wpc[q] = "loop" /\ shutdown_event /\ wpc'[q] # "loop"
                => wpc'[q] = "exited"
             /\ wpc[q] = "exited" => wpc'[q] = "exited"
         ]_vars

\* the event was set while a worker ran a task, _auto_cleanup swept and
\* _maintenance_worker wrote an evicted entry, and all three have returned,
\* with a task left in the queue
C35_Witness ==
    /\ shutdown_event
    /\ Stopped
    /\ \E q \in QIds : wpc[q] = "exited" /\ qitems[q] # <<>>
    /\ \E k \in TaskIds : outcome[k] \in {"ok", "raised"}
    /\ cache_keys = <<>>
    /\ locks["c1"] = NoLock


\* ------------------------------------------------------------ the locks --
\* thread t is in lock.acquire() and the lock is held by another thread (or,
\* for a threading.Lock, by itself)
Blocked(t) ==
    /\ Busy(t)
    /\ AtOp(t).op = "acq"
    /\ ~CanTake(t, AtOp(t).lock)
\* the threads of S wait for locks that threads of S hold
WaitCycle(S) ==
    /\ S # {}
    /\ \A t \in S : Blocked(t) /\ dl.owner[AtOp(t).lock] \in S

\* C36: no set of threads waits for locks held within the set, and
\* _auto_cleanup waits for no lock while it holds _global_lock
C36_DeadlockFree ==
    /\ \A S \in SUBSET DeadThreads : ~WaitCycle(S)
    /\ dl.owner[GlobalLock] = DeadSweep => ~Blocked(DeadSweep)

\* _auto_cleanup holds _global_lock and has found the lock of a chat taken,
\* while the handler that holds that lock waits for _cache_lock, which the
\* maintenance thread holds, and the worker waits for _global_lock
C36_Witness ==
    /\ dl.owner[GlobalLock] = DeadSweep
    /\ AtOp(DeadSweep) = Rel(GlobalLock)
    /\ \E h \in DeadHandlers :
          /\ dl.owner[ChatLock("c2")] = h
          /\ Blocked(h)
          /\ AtOp(h).lock = CacheLock
          /\ dl.owner[CacheLock] = DeadMaint
    /\ Blocked(DeadWorker)
    /\ AtOp(DeadWorker).lock = GlobalLock

\* the thread t has its answer in this step
RateAnswered(t) == rl.pc[t] # "idle" /\ rl'.pc[t] = "idle"

\* the two counters of the request of thread t are the same after the step
RateCountersKept(t) ==
    \A u \in {rl.user_id[t]} :
       /\ GetUsage(rl'.hourly[u], rl.keys[t].hour_key)
             = GetUsage(rl.hourly[u], rl.keys[t].hour_key)
       /\ GetUsage(rl'.daily[u], rl.keys[t].day_key)
             = GetUsage(rl.daily[u], rl.keys[t].day_key)

\* C38: however the calls of check_and_record interleave, no more than
\* USER_RATE_LIMIT_HOURLY requests of a user who is not an admin are admitted
\* under one hour key and no more than USER_RATE_LIMIT_DAILY under one day
\* key; a request that is rejected leaves the counters of its two keys as
\* they were, in the step that reads them and in the step that answers; an
\* admin is admitted and no counter of any user changes.
C38_RateLimit ==
    /\ [](/\ \A k \in DOMAIN rl.admitted_hourly :
               rl.admitted_hourly[k] <= UserRateLimitHourly
          /\ \A k \in DOMAIN rl.admitted_daily :
               rl.admitted_daily[k] <= UserRateLimitDaily)
    /\ [][\A t \in RateThreads :
            /\ (/\ rl.pc[t] = "keyed" /\ rl'.pc[t] = "read"
                /\ (rl'.hourly_count[t] >= UserRateLimitHourly
                      \/ rl'.daily_count[t] >= UserRateLimitDaily))
                  => RateCountersKept(t)
            /\ (RateAnswered(t) /\ ~rl'.allowed[t]) => RateCountersKept(t)
            /\ (RateAnswered(t) /\ IsAdmin(rl.user_id[t]))
                  => (/\ rl'.allowed[t]
                      /\ rl'.hourly = rl.hourly
                      /\ rl'.daily = rl.daily)]_vars

\* two calls for the same user under the same keys have been answered, one
\* admitted and one rejected, and the hour key is at its limit
C38_Witness ==
    \E t \in RateThreads, s \in RateThreads :
       /\ t # s
       /\ rl.calls = 2
       /\ rl.pc[t] = "idle" /\ rl.pc[s] = "idle"
       /\ rl.user_id[t] = RateUser /\ rl.user_id[s] = RateUser
       /\ rl.keys[t] = rl.keys[s]
       /\ rl.allowed[t] /\ ~rl.allowed[s]
       /\ rl.hourly_count[t] = UserRateLimitHourly - 1
       /\ rl.hourly_count[s] = UserRateLimitHourly
       /\ rl.admitted_hourly[rl.keys[t].hour_key] = UserRateLimitHourly

\* C39: of all calls of validate_and_consume for one code at most one
\* returns a role, the others return None; a code that was revoked is never
\* consumed and a code that was consumed is never revoked: no code has both
\* a call that returned its role and a revoke_code that returned True, a
\* call returns a role only for a code that was active, and a used or
\* revoked code keeps its status.
C39_CodeConsumedOnce ==
    /\ [](\A c \in Codes :
            /\ ic.granted[c] <= 1
            /\ ic.granted[c] + ic.revoked[c] <= 1
            /\ (ic.granted[c] = 1) <=> (ic.status[c] = "used")
            /\ (ic.revoked[c] = 1) <=> (ic.status[c] = "revoked"))
    /\ [][\A c \in Codes :
            /\ ic.status[c] \in {"used", "revoked"} => ic'.status[c] = ic.status[c]
            /\ ic'.granted[c] # ic.granted[c] => ic.status[c] = "active"
            /\ ic'.revoked[c] # ic.revoked[c] => ic.status[c] = "active"]_vars

\* two calls of validate_and_consume for the same code were waiting at the
\* same time and both have returned: one its role, the other None
C39_Witness ==
    \E t \in CodeThreads, s \in CodeThreads, c \in Codes :
       /\ t # s
       /\ ic.calls = 2
       /\ ic.pc[t] = "idle" /\ ic.pc[s] = "idle"
       /\ ic.op[t] = "consume" /\ ic.op[s] = "consume"
       /\ ic.code[t] = c /\ ic.code[s] = c
       /\ ic.result[t] \in CodeRoles
       /\ ic.result[s] = NoRole
       /\ ic.granted[c] = 1
       /\ ic.used_by[c] = t

\* the clear_context of thread t ends in this step and its store write
\* had succeeded
ClearCompletes(t) ==
    /\ InClear(t)
    /\ th[t].pc = "ret"
    /\ th'[t].pc = "idle"
    /\ th[t].saved

\* C40: when the /clear of a chat completes and its store write succeeded,
\* get_context of the chat returns the empty transcript, the store holds no
\* turn of the chat and the cooldown of the chat is 0.
C40_ClearLeavesNothing ==
    [][\A t \in Clients :
          ClearCompletes(t) =>
             \A c \in {th[t].chat} :
                /\ GetContextLocked(cache_keys', cache', store'[c], c, now').result = <<>>
                /\ store'[c] = <<>>
                /\ GetCooldown(cache_keys', cache', c) = 0]_vars
====
